---- MODULE Spec2Model ----
(***************************************************************************)
(* Flavor-pairing graph pipeline (scripts/*.py): ingredient normalizer,    *)
(* validity filter, line classifier and graph builder of the extraction,   *)
(* junk cleaning, canonicalization merge and non-food/isolated filtering.  *)
(*                                                                         *)
(* A Python str is modelled as a sequence of characters, each character a  *)
(* one-character TLA+ string; characters outside ASCII carry a name        *)
(* ("EMDASH" is U+2014, "e_acute" is U+00E9, ...).                         *)
(***************************************************************************)
EXTENDS Integers, Sequences, FiniteSets, TLC

VARIABLES
    memo,                \* the pure functions on the lines and ids of the model, computed once
    pc,                  \* which script is running
    raw, normalized,     \* normalize_ingredient: its argument and its result
    observations,        \* the fold: a list of observations and a reordering of it
    graphs,              \* the fold: the graph built from each of the two
    doc,                 \* extract_from_pdf: the lines of the document, in order
    lines,               \* extract_from_pdf: the lines not yet read
    last,                \* history: the line read last and the state it was read in
                         \* (NoLine before the first line)
    current_ingredient,  \* extract_from_pdf: current_ingredient (None is NoneVal)
    in_affinities,       \* extract_from_pdf: in_affinities
    pairings,            \* extract_from_pdf: pairings, a dict (keys in insertion order)
    edge_levels,         \* extract_from_pdf: edge_levels, frozenset pair -> level
    affinity_edges,      \* extract_from_pdf: affinity_edges, a list of (a, b)
    observed,            \* history: every (pair, level) the line loop recorded
    nodes, edges,        \* data["nodes"], data["edges"] of flavor_pairings.json
    stage,               \* the script that wrote flavor_pairings.json last
    prev_nodes, prev_edges, \* history: the graph that script read
    pdf,                 \* the PDF: whether it exists, and its chart pages not yet joined in doc
    page_num,            \* extract_from_pdf: page_num, counted from the first chart page
    mode,                \* how the pages are extracted: sequentially, or one at a time
    page_results,        \* the results of the pages extracted one at a time
    fs,                  \* flavor_pairings.json and flavor_pairings.csv as files
    io,                  \* the run of a script: what it writes and how it ended
    call                 \* a call of a function on its own: its arguments, then its result

vars == <<memo, pc, raw, normalized, observations, graphs, doc, lines, last,
          current_ingredient, in_affinities, pairings, edge_levels, affinity_edges,
          observed, nodes, edges, stage, prev_nodes, prev_edges,
          pdf, page_num, mode, page_results, fs, io, call>>

NoneVal == "None"
NoLine == [read |-> FALSE]

-----------------------------------------------------------------------------
(* Characters, in code point order.                                         *)

UpperSeq == <<"A","B","C","D","E","F","G","H","I","J","K","L","M","N","O","P","Q","R","S",
              "T","U","V","W","X","Y","Z">>
LowerSeq == <<"a","b","c","d","e","f","g","h","i","j","k","l","m","n","o","p","q","r","s",
              "t","u","v","w","x","y","z">>
DigitSeq == <<"0","1","2","3","4","5","6","7","8","9">>
AccentSeq == <<"c_cedil","e_acute","i_acute","n_tilde","o_circ">>

Chars == <<" ","!","'","(",")","*","+",",","-",".","/">> \o DigitSeq
         \o <<":",";","?">> \o UpperSeq \o <<"[","]","_">> \o LowerSeq
         \o AccentSeq \o <<"EMDASH">>

Range(f) == {f[i] : i \in DOMAIN f}

CharSet == Range(Chars)
UPPER == Range(UpperSeq)
ALPHA == UPPER \cup Range(LowerSeq) \cup Range(AccentSeq)   \* str.isalpha
DIGIT == Range(DigitSeq)                                     \* \d
WS == {" "}                                                  \* \s, str.strip, str.split
WORD == ALPHA \cup DIGIT \cup {"_"}                          \* \w
ANY == CharSet                                               \* . (a line holds no newline)

Ord == [c \in CharSet |-> CHOOSE i \in DOMAIN Chars : Chars[i] = c]
LowerOf == [c \in CharSet |->
              IF c \in UPPER THEN LowerSeq[CHOOSE i \in DOMAIN UpperSeq : UpperSeq[i] = c]
              ELSE c]

-----------------------------------------------------------------------------
(* Python str methods.                                                      *)

lower(s) == [i \in 1..Len(s) |-> LowerOf[s[i]]]

isupper(s) == /\ \E i \in 1..Len(s) : s[i] \in UPPER
              /\ \A i \in 1..Len(s) : s[i] \notin Range(LowerSeq) \cup Range(AccentSeq)

RECURSIVE lstrip(_, _)
lstrip(s, cs) == IF s # <<>> /\ s[1] \in cs THEN lstrip(Tail(s), cs) ELSE s

RECURSIVE rstrip(_, _)
rstrip(s, cs) == IF s # <<>> /\ s[Len(s)] \in cs THEN rstrip(SubSeq(s, 1, Len(s) - 1), cs)
                 ELSE s

strip(s) == rstrip(lstrip(s, WS), WS)

startswith(s, p) == Len(p) <= Len(s) /\ SubSeq(s, 1, Len(p)) = p
endswith(s, p) == Len(p) <= Len(s) /\ SubSeq(s, Len(s) - Len(p) + 1, Len(s)) = p

\* s.find(sub, from): the first offset >= from where sub occurs in s, or -1
RECURSIVE find(_, _, _)
find(s, sub, from) ==
    IF from + Len(sub) > Len(s) THEN -1
    ELSE IF SubSeq(s, from + 1, from + Len(sub)) = sub THEN from
    ELSE find(s, sub, from + 1)

contains(s, sub) == find(s, sub, 0) >= 0       \* sub in s

\* s.split(sep)
RECURSIVE split(_, _)
split(s, sep) ==
    LET at(i) == IF i < 0 THEN <<s>>
                 ELSE <<SubSeq(s, 1, i)>> \o split(SubSeq(s, i + Len(sep) + 1, Len(s)), sep)
    IN at(find(s, sep, 0))

\* s.split(sep, 1)
split1(s, sep) ==
    LET at(i) == IF i < 0 THEN <<s>>
                 ELSE <<SubSeq(s, 1, i), SubSeq(s, i + Len(sep) + 1, Len(s))>>
    IN at(find(s, sep, 0))

\* s.split(): split on runs of whitespace, no empty strings
RECURSIVE split_ws(_)
split_ws(s) ==
    LET word(t, i) == IF t = <<>> THEN <<>>
                      ELSE IF i < 0 THEN <<t>>
                      ELSE <<SubSeq(t, 1, i)>> \o split_ws(SubSeq(t, i + 1, Len(t)))
        from(t) == word(t, find(t, <<" ">>, 0))
    IN from(lstrip(s, WS))

\* sep.join(parts)
RECURSIVE join(_, _)
join(parts, sep) ==
    IF parts = <<>> THEN <<>>
    ELSE IF Len(parts) = 1 THEN parts[1]
    ELSE parts[1] \o sep \o join(Tail(parts), sep)

\* s.replace(old, new), old not empty
RECURSIVE replace(_, _, _)
replace(s, old, new) ==
    LET at(i) == IF i < 0 THEN s
                 ELSE SubSeq(s, 1, i) \o new
                      \o replace(SubSeq(s, i + Len(old) + 1, Len(s)), old, new)
    IN at(find(s, old, 0))

\* s < t, by code points
RECURSIVE str_lt(_, _)
str_lt(s, t) ==
    IF t = <<>> THEN FALSE
    ELSE IF s = <<>> THEN TRUE
    ELSE IF s[1] # t[1] THEN Ord[s[1]] < Ord[t[1]]
    ELSE str_lt(Tail(s), Tail(t))

-----------------------------------------------------------------------------
(* Python re.  A pattern is a sequence of items: a character class with a   *)
(* greedy repetition {lo,hi}, an anchor, or an alternation of patterns.     *)

\* cs{lo,hi}; hi = -1 is no upper limit
rx_cls(cs, lo, hi) == <<[t |-> "c", cs |-> cs, lo |-> lo, hi |-> hi]>>
rx_one(cs) == rx_cls(cs, 1, 1)                 \* [cs]
rx_opt(cs) == rx_cls(cs, 0, 1)                 \* [cs]?
rx_star(cs) == rx_cls(cs, 0, -1)               \* [cs]*
rx_plus(cs) == rx_cls(cs, 1, -1)               \* [cs]+
rx_lit(str) == [i \in 1..Len(str) |-> [t |-> "c", cs |-> {str[i]}, lo |-> 1, hi |-> 1]]
rx_bol == <<[t |-> "bol"]>>                    \* ^
rx_eol == <<[t |-> "eol"]>>                    \* $
rx_wb == <<[t |-> "wb"]>>                      \* \b
rx_alt(alts) == <<[t |-> "alt", alts |-> alts]>>
\* the pattern under re.I: every letter matches in both cases
rx_nocase(re) ==
    [k \in 1..Len(re) |->
        IF re[k].t = "c"
        THEN [re[k] EXCEPT !.cs = @ \cup {c \in CharSet : LowerOf[c] \in @}]
        ELSE re[k]]

is_wb(s, i) == LET before == i >= 1 /\ s[i] \in WORD
                   after == i < Len(s) /\ s[i + 1] \in WORD
               IN before # after

\* the number of characters of s from offset i on that are in cs, at most hi
RECURSIVE rx_run(_, _, _, _)
rx_run(s, i, cs, hi) ==
    IF hi = 0 \/ i >= Len(s) \/ s[i + 1] \notin cs THEN 0
    ELSE 1 + rx_run(s, i + 1, cs, hi - 1)

\* re.match at offset i of items k.. of re: the offset where the match ends, by the
\* backtracking order (longest repetition first, alternatives left to right), or -1
RECURSIVE rx_m(_, _, _, _), rx_rep(_, _, _, _, _), rx_alts(_, _, _, _, _)
rx_m(re, k, s, i) ==
    IF k > Len(re) THEN i
    ELSE CASE re[k].t = "bol" -> IF i = 0 THEN rx_m(re, k + 1, s, i) ELSE -1
           [] re[k].t = "eol" -> IF i = Len(s) THEN rx_m(re, k + 1, s, i) ELSE -1
           [] re[k].t = "wb" -> IF is_wb(s, i) THEN rx_m(re, k + 1, s, i) ELSE -1
           [] re[k].t = "alt" -> rx_alts(re, k, s, i, 1)
           [] re[k].t = "c" -> rx_rep(re, k, s, i, rx_run(s, i, re[k].cs, re[k].hi))
rx_rep(re, k, s, i, n) ==
    IF n < re[k].lo THEN -1
    ELSE LET or_less(r) == IF r >= 0 THEN r ELSE rx_rep(re, k, s, i, n - 1)
         IN or_less(rx_m(re, k + 1, s, i + n))
rx_alts(re, k, s, i, j) ==
    IF j > Len(re[k].alts) THEN -1
    ELSE LET or_next(r) == IF r >= 0 THEN r ELSE rx_alts(re, k, s, i, j + 1)
         IN or_next(rx_m(re[k].alts[j] \o SubSeq(re, k + 1, Len(re)), 1, s, i))

re_match(re, s) == rx_m(re, 1, s, 0) >= 0

\* re.search from offset i: <<start, end>> of the leftmost match, or <<-1, -1>>
RECURSIVE rx_search(_, _, _)
rx_search(re, s, i) ==
    IF i > Len(s) THEN <<-1, -1>>
    ELSE LET or_later(e) == IF e >= 0 THEN <<i, e>> ELSE rx_search(re, s, i + 1)
         IN or_later(rx_m(re, 1, s, i))

re_search(re, s) == rx_search(re, s, 0)[1] >= 0

\* re.sub(re, repl, s) for a pattern that matches no empty string
RECURSIVE rx_sub(_, _, _, _)
rx_sub(re, repl, s, i) ==
    LET at(m) == IF m[1] < 0 \/ m[2] = m[1] THEN SubSeq(s, i + 1, Len(s))
                 ELSE SubSeq(s, i + 1, m[1]) \o repl \o rx_sub(re, repl, s, m[2])
    IN at(rx_search(re, s, i))

re_sub(re, repl, s) == rx_sub(re, repl, s, 0)

-----------------------------------------------------------------------------
(* extract_flavor_pairings.py: normalize_ingredient                         *)

RX_dash_suffix == rx_star(WS) \o rx_lit(<<"EMDASH">>) \o rx_plus(WS) \o rx_star(ANY) \o rx_eol
RX_parenthetical == rx_star(WS) \o rx_lit(<<"(">>) \o rx_star(ANY \ {")"}) \o rx_lit(<<")">>)
                    \o rx_star(WS)
RX_orphan_open == rx_one({"(", "["}) \o rx_star(WS)
RX_orphan_close == rx_star(WS) \o rx_one({")", "]"})
RX_abbrev == rx_wb \o rx_alt(<<rx_lit(<<"e","s","p",".">>), rx_lit(<<"e",".","g",".">>)>>)
             \o rx_star(WS)

normalize_ingredient(name) ==
    LET n1 == lower(strip(name))
        n2 == lstrip(n1, {"*"})                          \* the "Holy Grail" asterisk
        n3 == re_sub(RX_dash_suffix, <<>>, n2)           \* " - in general" and the like
        n4 == re_sub(RX_parenthetical, <<" ">>, n3)      \* parenthetical notes
        n5 == re_sub(RX_orphan_open, <<" ">>, n4)        \* orphan parentheses
        n6 == re_sub(RX_orphan_close, <<" ">>, n5)
        n7 == re_sub(RX_abbrev, <<>>, n6)                \* "esp.", "e.g."
    IN join(split_ws(n7), <<" ">>)                       \* whitespace collapsed

-----------------------------------------------------------------------------
(* extract_flavor_pairings.py: the validity filter and the line parsers     *)

METADATA_KEYS == {
    <<"a","v","o","i","d">>,
    <<"f","l","a","v","o","r"," ","a","f","f","i","n","i","t","i","e","s">>,
    <<"f","u","n","c","t","i","o","n">>, <<"s","e","a","s","o","n">>, <<"t","a","s","t","e">>,
    <<"t","e","c","h","n","i","q","u","e","s">>, <<"t","i","p","s">>, <<"v","o","l","u","m","e">>,
    <<"w","e","i","g","h","t">>}

BLOCKLIST == {
    <<"a","b","o","u","t"," ","t","h","e">>,
    <<"a","c","h","i","e","v","e"," ","b","a","l","a","n","c","e">>,
    <<"a","c","k","n","o","w","l","e","d","g","m","e","n","t","s">>,
    <<"a","c","q","u","i","r","i","n","g"," ","e","d","i","t","o","r">>,
    <<"a","d","d","i","n","g"," ","b","r","i","g","h","t">>,
    <<"a","d","d","i","n","g"," ","s","o","m","e">>, <<"a","d","n","e","w","s">>,
    <<"a","f","t","e","r"," ","a"," ">>,
    <<"a","l","l"," ","a"," ","m","u","s","h","r","o","o","m"," ","n","e","e","d","s">>,
    <<"a","l","l"," ","t","h","e"," ","f","l","a","v","o","r"," ","s","t","a","y","s">>,
    <<"a","l","o","n","g"," ","w","i","t","h">>,
    <<"a","l","s","o"," ","c","a","l","l","e","d"," ","f","o","r">>,
    <<"a","l","s","o"," ","k","n","o","w","n"," ","a","s">>,
    <<"a","n","d"," ","t","h","e","n"," ","c","o","o","k","e","d">>,
    <<"a","w","a","k","e","n","s"," ","f","l","a","v","o","r","s">>,
    <<"c","o","r","p","o","r","a","t","e"," ","c","a","r","e","e","r">>,
    <<"c","u","i","s","i","n","e">>,
    <<"e","d","i","t","o","r"," ","a","n","d"," ","p","u","b","l","i","s","h","e","r">>,
    <<"i","f"," ","i"," ">>, <<"m","o","s","t"," ","o","f"," ","t","h","e"," ","t","i","m","e">>,
    <<"r","e","s","t","a","u","r","a","n","t">>, <<"s","e","e"," ","a","l","s","o">>,
    <<"t","h","e"," ","v","e","g","e","t","a","b","l","e","s">>,
    <<"t","w","e","n","t","y","-","y","e","a","r">>,
    <<"v","i","s","i","t"," ","t","o"," ","s","p","a","i","n">>, <<"EMDASH"," ","b","o","b">>}

SENTENCE_CUES == {
    <<"r","e","c","o","m","m","e","n","d","e","d"," ","b","y">>,
    <<"s","u","g","g","e","s","t","e","d"," ","b","y">>, <<"k","e","y",":">>,
    <<"f","l","a","v","o","r","s"," ","m","e","n","t","i","o","n","e","d">>,
    <<"t","h","o","s","e"," ","i","n">>, <<"p","e","r","c","e","n","t">>,
    <<"p","a","r","t"," ","s","a","l","t">>, <<"p","a","r","t"," ","s","u","g","a","r">>,
    <<"m","i","x","t","u","r","e"," ","o","f">>, <<"a"," ","d","i","s","h">>,
    <<"a"," ","c","a","k","e">>, <<"a"," ","h","i","n","t"," ","o","f">>,
    <<"a"," ","l","i","t","t","l","e">>, <<"a"," ","c","o","u","p","l","e"," ","o","f">>,
    <<"a"," ","d","a","s","h"," ","o","f">>, <<"a"," ","l","i","g","h","t">>,
    <<"a"," ","m","o","m","e","n","t">>, <<"a"," ","c","o","n","t","r","a","s","t">>,
    <<"a"," ","f","r","u","i","t">>, <<"a"," ","h","a","r","v","a","r","d">>,
    <<"a"," ","l","a","t","i","n">>, <<"a"," ","f","r","i","e","n","d">>,
    <<"a"," ","d","e","l","i","c","i","o","u","s">>}

HEADER_METADATA_PREFIXES == {
    <<"s","e","a","s","o","n",":">>, <<"t","a","s","t","e",":">>, <<"w","e","i","g","h","t",":">>,
    <<"v","o","l","u","m","e",":">>, <<"t","e","c","h","n","i","q","u","e","s",":">>,
    <<"t","i","p","s",":">>, <<"a","v","o","i","d",":">>, <<"f","u","n","c","t","i","o","n",":">>}

\* ^(a|an|the|and|also|along)\s+
RX_leading_article ==
    rx_bol \o rx_alt(<<rx_lit(<<"a">>), rx_lit(<<"a","n">>), rx_lit(<<"t","h","e">>),
                       rx_lit(<<"a","n","d">>), rx_lit(<<"a","l","s","o">>),
                       rx_lit(<<"a","l","o","n","g">>)>>) \o rx_plus(WS)
\* ^[\W\d]+$
RX_no_letters == rx_bol \o rx_plus((CharSet \ WORD) \cup DIGIT) \o rx_eol
\* \d
RX_digit == rx_one(DIGIT)

is_valid_ingredient(name) ==
    /\ Len(name) >= 2
    /\ Len(name) <= 45
    /\ \A x \in SENTENCE_CUES : ~contains(name, x)
    /\ ~re_match(RX_leading_article, name)
    /\ ~re_match(RX_no_letters, name)
    /\ ~re_search(RX_digit, name)
    /\ ~(endswith(name, <<".">>) \/ endswith(name, <<"!">>) \/ endswith(name, <<"?">>))
    /\ ~(startswith(name, <<"(">>) \/ endswith(name, <<")">>))
    /\ \A bl \in BLOCKLIST : ~contains(lower(name), bl)

\* a faulty variant: a line is a header only when every letter is in capitals and
\* nothing else but spaces is in it
is_ingredient_header_letters_only(line) ==
    /\ Len(strip(line)) >= 2
    /\ \A i \in 1..Len(strip(line)) : strip(line)[i] \in UPPER \cup {" "}

is_ingredient_header(line) ==
    LET ratio_ok(letters, uppers) ==
            /\ letters # {}
            /\ 10 * Cardinality(uppers) >= 8 * Cardinality(letters)   \* upper_ratio >= 0.8
        not_metadata(low) ==
            /\ \A p \in HEADER_METADATA_PREFIXES : ~startswith(low, p)
            /\ low # <<"f","l","a","v","o","r"," ","a","f","f","i","n","i","t","i","e","s">>
        header(stripped) ==
            /\ Len(stripped) >= 2
            /\ not_metadata(lower(stripped))
            /\ ratio_ok({i \in 1..Len(stripped) : stripped[i] \in ALPHA},
                        {i \in 1..Len(stripped) : stripped[i] \in UPPER})
    IN header(strip(line))

\* \s+(esp\.|e\.g\.)\s+.*$ under re.I
RX_abbrev_tail ==
    rx_nocase(rx_plus(WS)
              \o rx_alt(<<rx_lit(<<"e","s","p",".">>), rx_lit(<<"e",".","g",".">>)>>)
              \o rx_plus(WS) \o rx_star(ANY) \o rx_eol)

\* the level parse_pairing_line gives the whole line
\* a faulty variant: an asterisk anywhere in the line makes it a Holy Grail line
line_level_any_asterisk(line_raw, is_bold) ==
    IF contains(line_raw, <<"*">>) THEN 4
    ELSE IF is_bold THEN 2
    ELSE 1

\* a faulty variant: the bold styling is looked at before the first word
line_level_bold_first(line_raw, is_bold) ==
    IF startswith(lstrip(line_raw, WS), <<"*">>) THEN 4
    ELSE IF is_bold THEN 2
    ELSE IF isupper(line_raw) THEN 3
    ELSE 1

line_level(line_raw, is_bold) ==
    LET has_asterisk == startswith(lstrip(line_raw, WS), <<"*">>)
        first_word(first_part) == IF first_part # <<>> THEN split_ws(first_part)[1] ELSE <<>>
        all_caps(word) == isupper(word) /\ Len(word) > 1
        is_all_caps == all_caps(first_word(strip(split(line_raw, <<",">>)[1])))
    IN IF has_asterisk THEN 4            \* Holy Grail
       ELSE IF is_all_caps THEN 3        \* BOLD CAPS
       ELSE IF is_bold THEN 2            \* bold
       ELSE 1                            \* regular

\* one comma-separated part of a pairing line, cleaned and normalized
pairing_part(part0) ==
    LET p1 == re_sub(RX_abbrev_tail, <<>>, strip(part0))
        p2 == re_sub(RX_parenthetical, <<" ">>, p1)
        p3 == rstrip(lstrip(p2, {" ", ")"}), {" ", ")"})
        p4 == join(split_ws(p3), <<" ">>)
    IN normalize_ingredient(p4)

\* [s[i] for i in 1..Len(s) if i in K]: the elements of a list comprehension
RECURSIVE keep_from(_, _, _)
keep_from(s, K, i) ==
    IF i > Len(s) THEN <<>>
    ELSE (IF i \in K THEN <<s[i]>> ELSE <<>>) \o keep_from(s, K, i + 1)
select_seq(s, K) == keep_from(s, K, 1)

\* parse_pairing_line: the list of (ingredient, level)
parse_pairing_line(line, is_bold) ==
    LET is_legend(low) ==
            \/ contains(low, <<"k","e","y",":">>)
            \/ contains(low, <<"f","l","a","v","o","r","s"," ","m","e","n","t","i","o","n","e","d">>)
            \/ contains(low, <<"t","h","o","s","e"," ","i","n">>)
            \/ contains(low, <<"r","e","c","o","m","m","e","n","d","e","d"," ","b","y">>)
        with_level(kept, level) == [i \in 1..Len(kept) |-> <<kept[i], level>>]
        valid_of(norms) ==
            select_seq(norms, {i \in DOMAIN norms :
                                  norms[i] # <<>> /\ is_valid_ingredient(norms[i])})
        norms_of(parts) == [i \in 1..Len(parts) |-> pairing_part(parts[i])]
        result(line_raw) ==
            IF line_raw = <<>> THEN <<>>
            ELSE with_level(valid_of(norms_of(split(line_raw, <<",">>))),
                            line_level(line_raw, is_bold))
    IN IF is_legend(lower(line)) THEN <<>> ELSE result(strip(line))

\* a faulty variant: only neighbouring parts are paired (a chain, not a clique)
RECURSIVE affinity_pairs_chain(_, _, _)
affinity_pairs_chain(parts, i, j) ==
    IF i >= Len(parts) THEN <<>>
    ELSE (IF parts[i] # parts[i + 1] THEN <<(<<parts[i], parts[i + 1]>>)>> ELSE <<>>)
         \o affinity_pairs_chain(parts, i + 1, j)

\* the pairs (parts[i], parts[j]), i < j, of unequal parts, in the order of the loops
RECURSIVE affinity_pairs(_, _, _)
affinity_pairs(parts, i, j) ==
    IF i > Len(parts) THEN <<>>
    ELSE IF j > Len(parts) THEN affinity_pairs(parts, i + 1, i + 2)
    ELSE (IF parts[i] # parts[j] THEN <<(<<parts[i], parts[j]>>)>> ELSE <<>>)
         \o affinity_pairs(parts, i, j + 1)

\* parts: the normalized, valid pieces of the line split at '+'
affinity_parts(line) ==
    LET valid_of(norms) ==
            select_seq(norms, {i \in DOMAIN norms : is_valid_ingredient(norms[i])})
        norms_of(pieces) ==
            [i \in 1..Len(pieces) |-> normalize_ingredient(strip(pieces[i]))]
        not_blank(all) == select_seq(all, {i \in DOMAIN all : strip(all[i]) # <<>>})
    IN valid_of(norms_of(not_blank(split(line, <<"+">>))))

\* parse_flavor_affinity: the list of (a, b)
parse_flavor_affinity(line0) ==
    LET pairs(parts) == IF Len(parts) < 2 THEN <<>> ELSE affinity_pairs(parts, 1, 2)
        result(line) ==
            IF \/ line = <<>>
               \/ contains(lower(line), <<"f","l","a","v","o","r"," ","a","f","f","i","n","i","t">>)
            THEN <<>>
            ELSE pairs(affinity_parts(line))
    IN result(strip(line0))

-----------------------------------------------------------------------------
(* clean_flavor_data.py: BLOCKLIST, BLOCKLIST_REGEX, should_remove           *)

\* BLOCKLIST of clean_flavor_data.py
CLEAN_BLOCKLIST == {
    <<"a","l","l"," ","k","i","n","d","s"," ","o","f"," ","v","e","g","e","t","a","b","l","e","s">>,
    <<"a","l","o","n","g"," ","w","i","t","h">>,
    <<"a","l","s","o"," ","c","a","l","l","e","d"," ","f","o","r">>,
    <<"a","l","s","o"," ","k","n","o","w","n"," ","a","s">>,
    <<"a","l","w","a","y","s"," ","t","e","n","d"," ","t","o"," ","b","e">>,
    <<"a","n","d"," ","a"," ">>, <<"a","n","d"," ","a","d","d"," ">>,
    <<"a","n","d"," ","a","f","t","e","r"," ">>,
    <<"a","n","d"," ","a","l","m","o","n","d","s"," ","a","t"," ","c","h","e","f">>,
    <<"a","n","d"," ","a","l","m","o","s","t"," ">>,
    <<"a","n","d"," ","a","m","a","r","e","t","t","i">>,
    <<"a","n","d"," ","a","n","c","h","o","v","i","e","s">>,
    <<"a","n","d"," ","a","p","p","l","e"," ","c","i","d","e","r">>,
    <<"a","n","d"," ","a","r","t","i","c","h","o","k","e"," ","p","u","r","e","e">>,
    <<"a","n","d"," ","a","v","o","c","a","d","o"," ","i","n"," ","a">>,
    <<"a","n","d"," ","b","a","c","o","n"," ","a","n","d"," ","e","g","g","s">>,
    <<"a","n","d"," ","b","a","r","o","l","o">>,
    <<"a","n","d"," ","b","e","l","g","i","a","n"," ","e","n","d","i","v","e">>,
    <<"a","n","d"," ","b","l","o","o","d"," ","o","r","a","n","g","e">>,
    <<"a","n","d"," ","b","o","u","r","b","o","n">>,
    <<"a","n","d"," ","b","r","o","w","n"," ","b","u","t","t","e","r">>,
    <<"a","n","d"," ","b","u","r","n","i","n","g">>,
    <<"a","n","d"," ","c","a","b","e","r","n","e","t">>,
    <<"a","n","d"," ","c","a","n","d","i","e","d">>,
    <<"a","n","d"," ","c","a","u","l","i","f","l","o","w","e","r"," ","p","u","r","e","e">>,
    <<"a","n","d"," ","c","h","a","n","t","e","r","e","l","l","e","s">>,
    <<"a","n","d"," ","c","h","e","e","s","e"," ","s","a","u","c","e","s">>,
    <<"a","n","d"," ","c","h","i","c","o","r","y"," ","e","m","u","l","s","i","o","n">>,
    <<"a","n","d"," ","c","h","i","l","e","s","."," ","i">>,
    <<"a","n","d"," ","c","h","i","v","e">>, <<"a","n","d"," ","c","i","l","a","n","t","r","o">>,
    <<"a","n","d"," ","c","l","o","v","e"," ","w","o","r","k","s">>,
    <<"a","n","d"," ","c","o","u","l","i","s">>,
    <<"a","n","d"," ","c","o","u","n","t","r","y"," ","b","r","e","a","d">>,
    <<"a","n","d"," ","c","r","i","s","p">>, <<"a","n","d"," ","c","u","r","r","a","n","t">>,
    <<"a","n","d"," ","d","e","l","i","c","a","t","e">>, <<"a","n","d"," ","d","i","c","e","d">>,
    <<"a","n","d"," ","d","o","i","n","g"," ","s","o","m","e","t","h","i","n","g">>,
    <<"a","n","d"," ","d","r","i","z","z","l","e","d">>,
    <<"a","n","d"," ","d","u","n","g","e","n","e","s","s"," ","c","r","a","b"," ","r","i","s","o","t","t","o">>,
    <<"a","n","d"," ","e","d","a","m","a","m","e"," ","w","i","t","h">>,
    <<"a","n","d"," ","e","g","g"," ","s","a","l","a","d">>,
    <<"a","n","d"," ","e","p","a","z","o","t","e">>,
    <<"a","n","d"," ","e","x","t","r","a","-","v","i","r","g","i","n">>,
    <<"a","n","d"," ","f","a","t","t","y">>,
    <<"a","n","d"," ","f","a","v","a"," ","b","e","a","n"," ","p","u","r","e","e">>,
    <<"a","n","d"," ","f","o","i","e"," ","g","r","a","s">>,
    <<"a","n","d"," ","f","r","i","e","d">>, <<"a","n","d"," ","g","a","r","l","i","c">>,
    <<"a","n","d"," ","g","a","r","r","o","t","x","a">>,
    <<"a","n","d"," ","g","e","t","s"," ","a"," ","n","o","t","e">>,
    <<"a","n","d"," ","g","i","n","g","e","r"," ","v","i","n","a","i","g","r","e","t","t","e">>,
    <<"a","n","d"," ","g","i","v","i","n","g"," ","b","o","d","y">>,
    <<"a","n","d"," ","g","r","e","e","n"," ","a","p","p","l","e">>,
    <<"a","n","d"," ","g","r","e","e","n"," ","c","h","i","l","e">>,
    <<"a","n","d"," ","h","e","r","b">>,
    <<"a","n","d"," ","h","o","n","e","y"," ","m","u","s","h","r","o","o","m","s">>,
    <<"a","n","d"," ","h","o","r","s","e","r","a","d","i","s","h">>,
    <<"a","n","d"," ","h","o","t"," ","c","h","i","l","e","s">>,
    <<"a","n","d"," ","i"," ","a","g","r","e","e">>,
    <<"a","n","d"," ","i"," ","a","l","s","o"," ","u","s","e">>,
    <<"a","n","d"," ","i","t"," ","b","e","c","a","m","e">>,
    <<"a","n","d"," ","i","t"," ","h","a","s"," ","a">>,
    <<"a","n","d"," ","i","t"," ","w","a","s"," ","g","o","o","d">>,
    <<"a","n","d"," ","j","a","m","s">>,
    <<"a","n","d"," ","k","a","l","e"," ","b","r","a","i","s","e","d">>,
    <<"a","n","d"," ","k","e","e","p"," ","t","h","e">>,
    <<"a","n","d"," ","l","a","v","e","n","d","e","r">>, <<"a","n","d"," ","l","e","m","o","n">>,
    <<"a","n","d"," ","l","e","t"," ","t","h","e">>,
    <<"a","n","d"," ","l","e","t","t","i","n","g"," ","i","t">>,
    <<"a","n","d"," ","l","i","g","h","t","l","y">>,
    <<"a","n","d"," ","l","o","b","s","t","e","r">>,
    <<"a","n","d"," ","m","a","k","e"," ","a"," ","s","a","l","a","d">>,
    <<"a","n","d"," ","m","a","n","d","a","r","i","n">>,
    <<"a","n","d"," ","m","a","p","l","e","-","s","h","e","r","r","y">>,
    <<"a","n","d"," ","m","a","r","c","o","n","a">>,
    <<"a","n","d"," ","m","a","s","c","a","r","p","o","n","e">>,
    <<"a","n","d"," ","m","e","a","t","-","b","a","s","e","d">>,
    <<"a","n","d"," ","m","i","n","t",";">>, <<"a","n","d"," ","n","i","c_cedil","o","i","s","e">>,
    <<"a","n","d"," ","o","l","i","v","e"," ","o","i","l"," ","a","n","d">>,
    <<"a","n","d"," ","o","n","e"," ","g","u","i","n","d","i","l","l","a">>,
    <<"a","n","d"," ","o","n","e"," ","r","e","a","s","o","n">>,
    <<"a","n","d"," ","o","n","e"," ","t","h","a","t"," ","i","s">>,
    <<"a","n","d"," ","o","n","i","o","n">>, <<"a","n","d"," ","o","n","i","o","n","s">>,
    <<"a","n","d"," ","o","r","a","n","g","e"," ","b","l","o","s","s","o","m">>,
    <<"a","n","d"," ","o","t","h","e","r"," ","h","a","r","d">>,
    <<"a","n","d"," ","p","a","r","m","e","s","a","n">>,
    <<"a","n","d"," ","p","a","r","m","i","g","i","a","n","o">>,
    <<"a","n","d"," ","p","a","r","s","l","e","y">>, <<"a","n","d"," ","p","e","d","r","o">>,
    <<"a","n","d"," ","p","e","p","p","e","r">>,
    <<"a","n","d"," ","p","e","r","u","v","i","a","n">>,
    <<"a","n","d"," ","p","i","n","e"," ","n","u","t","s">>,
    <<"a","n","d"," ","p","i","s","t","a","c","h","i","o","s">>,
    <<"a","n","d"," ","p","o","r","t">>, <<"a","n","d"," ","p","o","t","a","t","o","e","s">>,
    <<"a","n","d"," ","p","r","e","f","e","r","a","b","l","y">>,
    <<"a","n","d"," ","p","r","e","s","e","r","v","e","d">>,
    <<"a","n","d"," ","p","u","r","e"," ","l","u","c","k">>,
    <<"a","n","d"," ","r","a","m","p","s">>,
    <<"a","n","d"," ","r","e","d"," ","m","u","s","t","a","r","d">>,
    <<"a","n","d"," ","r","e","d"," ","w","i","n","e">>, <<"a","n","d"," ","s","a","b","a">>,
    <<"a","n","d"," ","s","a","l","a","d"," ","d","r","e","s","s","i","n","g","s">>,
    <<"a","n","d"," ","s","a","l","t">>, <<"a","n","d"," ","s","h","a","v","e","d">>,
    <<"a","n","d"," ","s","l","i","c","i","n","g">>, <<"a","n","d"," ","s","m","o","k","e","d">>,
    <<"a","n","d"," ","s","p","a","n","i","s","h">>, <<"a","n","d"," ","s","p","i","c","y">>,
    <<"a","n","d"," ","s","q","u","a","s","h"," ","w","i","t","h">>,
    <<"a","n","d"," ","s","t","a","r"," ","a","n","i","s","e">>,
    <<"a","n","d"," ","s","t","u","f","f","e","d">>,
    <<"a","n","d"," ","s","w","e","e","t","n","e","s","s">>,
    <<"a","n","d"," ","t","a","r","r","a","g","o","n">>,
    <<"a","n","d"," ","t","e","m","p","u","r","a">>,
    <<"a","n","d"," ","t","e","x","t","u","r","e">>,
    <<"a","n","d"," ","t","h","e"," ","b","i","g">>,
    <<"a","n","d"," ","t","h","e"," ","d","i","s","h">>,
    <<"a","n","d"," ","t","h","e"," ","f","l","a","v","o","r">>,
    <<"a","n","d"," ","t","h","e"," ","m","e","a","t">>,
    <<"a","n","d"," ","t","h","e"," ","n","e","x","t">>,
    <<"a","n","d"," ","t","h","e","n"," ","a","d","d">>,
    <<"a","n","d"," ","t","h","e","n"," ","j","u","s","t">>,
    <<"a","n","d"," ","t","h","e","n"," ","t","h","e">>,
    <<"a","n","d"," ","t","h","e","r","e","'","s">>,
    <<"a","n","d"," ","t","h","e","y"," ","w","a","n","t">>,
    <<"a","n","d"," ","t","h","y","m","e">>, <<"a","n","d"," ","t","o"," ","c","o","v","e","r">>,
    <<"a","n","d"," ","t","o","m","a","t","o"," ","s","a","u","c","e">>,
    <<"a","n","d"," ","t","o","s","s">>, <<"a","n","d"," ","t","r","u","f","f","l","e">>,
    <<"a","s"," ","f","l","o","u","r">>,
    <<"a","s"," ","m","u","s","t","a","r","d"," ","s","e","e","d","s">>,
    <<"a","s","p","a","r","a","g","u","s"," ","s","o","u","p",":">>,
    <<"a","s","s","e","r","t","i","v","e"," ","f","i","s","h"," ","l","i","k","e">>,
    <<"b","u","y","i","n","g"," ","a","n","d"," ","c","l","e","a","n","i","n","g">>,
    <<"c","h","e","f"," ">>, <<"c","h","e","f","'","s">>, <<"f","o","r"," ","m","o","r","e","l">>,
    <<"f","r","o","m"," ","t","h","e"," ","c","h","e","e","s","e">>,
    <<"f","r","o","m"," ","t","h","e"," ","h","a","m">>,
    <<"f","r","o","m"," ","t","h","e"," ","p","i","g">>,
    <<"p","u","t","t","i","n","g"," ","t","h","e"," ","f","i","s","h">>,
    <<"r","e","s","t","a","u","r","a","n","t">>,
    <<"s","c","o","o","p"," ","o","u","t"," ","t","h","e">>,
    <<"t","h","e","n"," ","t","h","e"," ","c","o","r","n">>, <<"w","e"," ","m","a","k","e"," ">>,
    <<"w","e"," ","m","a","k","e"," ","a"," ">>}

BLOCKLIST_REGEX == <<
    rx_bol \o rx_lit(<<"a","n","d">>) \o rx_one(WS),
    rx_bol \o rx_lit(<<"a","n","d","/","o","r">>) \o rx_one(WS),
    rx_bol \o rx_lit(<<"a","n","d">>) \o rx_eol,
    rx_bol \o rx_lit(<<"a","l","o","n","g"," ","w","i","t","h">>),
    rx_bol \o rx_lit(<<"a","l","s","o"," ">>),
    rx_one(WS) \o rx_lit(<<"a","l","s","o">>) \o rx_one(WS),
    rx_bol \o rx_lit(<<"t","h","e"," ">>),
    rx_bol \o rx_lit(<<"t","h","a","t"," ">>),
    rx_bol \o rx_lit(<<"t","h","i","s"," ">>),
    rx_bol \o rx_lit(<<"i","f"," ","i">>) \o rx_wb,
    rx_bol \o rx_lit(<<"w","h","e","n"," ">>),
    rx_bol \o rx_lit(<<"b","e","c","a","u","s","e"," ">>),
    rx_bol \o rx_lit(<<"b","u","t">>) \o rx_one(WS),
    rx_bol \o rx_lit(<<"g","o","o","d">>) \o rx_one(WS),
    rx_bol \o rx_lit(<<"i","n"," ","s","m","a","l","l">>),
    rx_bol \o rx_lit(<<"o","r">>) \o rx_one(WS),
    rx_bol \o rx_lit(<<"o","r"," ","h","o","n","e","y">>),
    rx_bol \o rx_lit(<<"o","n"," ","m","e"," ">>),
    rx_bol \o rx_lit(<<"a">>) \o rx_one(WS),
    rx_bol \o rx_lit(<<"a","n">>) \o rx_one(WS),
    rx_bol \o rx_lit(<<"f","o","r">>) \o rx_one(WS),
    rx_bol \o rx_lit(<<"a","s">>) \o rx_one(WS),
    rx_plus(WS) \o rx_lit(<<"a","n","d">>) \o rx_plus(WS),
    rx_plus(WS) \o rx_lit(<<"t","h","e">>) \o rx_plus(WS),
    rx_plus(WS) \o rx_lit(<<"o","r">>) \o rx_plus(WS),
    rx_one(WS) \o rx_lit(<<"c","u","i","s","i","n","e">>) \o rx_alt(<<<<>>, rx_lit(<<"s">>)>>) \o rx_star(WS) \o rx_eol,
    rx_bol \o rx_lit(<<"c","u","i","s","i","n","e">>) \o rx_eol,
    rx_bol \o rx_one(DIGIT),
    rx_lit(<<"p","e","r","c","e","n","t">>),
    rx_lit(<<"p","a","r","t"," ","s","a","l","t">>),
    rx_lit(<<"p","a","r","t"," ","s","u","g","a","r">>),
    rx_lit(<<".">>) \o rx_plus(WS) \o rx_one(Range(LowerSeq)),
    rx_lit(<<"!">>) \o rx_eol,
    rx_lit(<<"?">>) \o rx_eol>>

\* \b(we|who|as they|it is|that is)\s+(also|are|make|loved)
RX_sentence ==
    rx_wb \o rx_alt(<<rx_lit(<<"w","e">>), rx_lit(<<"w","h","o">>), rx_lit(<<"a","s"," ","t","h","e","y">>), rx_lit(<<"i","t"," ","i","s">>), rx_lit(<<"t","h","a","t"," ","i","s">>)>>) \o rx_plus(WS) \o rx_alt(<<rx_lit(<<"a","l","s","o">>), rx_lit(<<"a","r","e">>), rx_lit(<<"m","a","k","e">>), rx_lit(<<"l","o","v","e","d">>)>>)

CLEAN_NON_FOOD == {
    <<"a","l","a","b","a","m","a">>, <<"a","l","i","n","e","a">>, <<"a","l","c","o","h","o","l">>,
    <<"a","c","i","d","i","t","y">>, <<"a","g","e","d">>, <<"a","l","s","a","t","i","a","n">>,
    <<"a","d","n","e","w","s">>, <<"a","c","k","n","o","w","l","e","d","g","m","e","n","t","s">>,
    <<"a","c","q","u","i","r","i","n","g">>, <<"a","c","h","i","e","v","e">>,
    <<"a","d","d","i","n","g">>, <<"a","f","t","e","r"," ","a">>,
    <<"a","b","o","u","t"," ","t","h","e">>, <<"a","k","a"," ","t","a","g","i","n","e","s">>,
    <<"i","t">>, <<"b","e","l","l">>, <<"b","l","o","o","d">>}

should_remove(node_id) ==
    LET removed(low) ==
            \/ Len(low) < 3                                          \* too short
            \/ Len(low) > 50                                         \* too long
            \/ \E bl \in CLEAN_BLOCKLIST : contains(low, bl)
            \/ \E i \in DOMAIN BLOCKLIST_REGEX : re_search(BLOCKLIST_REGEX[i], low)
            \/ endswith(low, <<" ","c","u","i","s","i","n","e">>)
            \/ endswith(low, <<" ","c","u","i","s","i","n","e","s">>)
            \/ re_search(RX_sentence, low)
            \/ low \in CLEAN_NON_FOOD
    IN removed(strip(lower(node_id)))

-----------------------------------------------------------------------------
(* normalize_and_merge_ingredients.py: is_single_ingredient,                 *)
(* normalize_to_canonical, expand_comma_to_canonicals                        *)

PHRASE_PATTERNS == <<
    rx_bol \o rx_lit(<<"a","r","e">>) \o rx_plus(WS),
    rx_wb \o rx_lit(<<"a","r","e">>) \o rx_plus(WS) \o rx_plus(WORD),
    rx_wb \o rx_lit(<<"i","s">>) \o rx_plus(WS) \o rx_plus(WORD),
    rx_wb \o rx_lit(<<"i","n">>) \o rx_plus(WS) \o rx_lit(<<"c","a","r","r","o","t">>) \o rx_plus(WS) \o rx_lit(<<"b","u","t","t","e","r">>),
    rx_wb \o rx_lit(<<"i","n">>) \o rx_plus(WS) \o rx_lit(<<"r","e","d">>) \o rx_plus(WS) \o rx_lit(<<"w","i","n","e">>) \o rx_plus(WS) \o rx_lit(<<"s","a","u","c","e">>),
    rx_wb \o rx_lit(<<"i","n">>) \o rx_plus(WS) \o rx_lit(<<"a">>) \o rx_plus(WS),
    rx_wb \o rx_lit(<<"i","n">>) \o rx_plus(WS) \o rx_lit(<<"t","h","e">>) \o rx_plus(WS),
    rx_wb \o rx_lit(<<"a","s">>) \o rx_plus(WS) \o rx_lit(<<"i","n">>) \o rx_plus(WS),
    rx_wb \o rx_lit(<<"f","o","r">>) \o rx_plus(WS) \o rx_lit(<<"g","r","a","n","t","e","d">>),
    rx_wb \o rx_lit(<<"i","f">>) \o rx_plus(WS) \o rx_lit(<<"y","o","u">>) \o rx_plus(WS) \o rx_lit(<<"w","a","n","t">>),
    rx_wb \o rx_lit(<<"w","h","e","n">>) \o rx_plus(WS) \o rx_lit(<<"t","h","e","y">>) \o rx_plus(WS) \o rx_lit(<<"a","r","e">>),
    rx_wb \o rx_lit(<<"d","o","n">>) \o rx_opt({"'"}) \o rx_lit(<<"t">>) \o rx_plus(WS) \o rx_plus(WORD),
    rx_wb \o rx_lit(<<"t","h","o","s","e">>) \o rx_plus(WS),
    rx_wb \o rx_lit(<<"t","h","e","n">>) \o rx_plus(WS) \o rx_lit(<<"p","u","l","l">>),
    rx_wb \o rx_lit(<<"t","y","p","i","c","a","l","l","y">>) \o rx_plus(WS) \o rx_lit(<<"i","n">>),
    rx_wb \o rx_lit(<<"g","e","n","e","r","a","l","l","y">>) \o rx_plus(WS) \o rx_lit(<<"i","n">>),
    rx_wb \o rx_lit(<<"s","h","i","r","t","s">>) \o rx_plus(WS) \o rx_lit(<<"i","n">>) \o rx_plus(WS) \o rx_lit(<<"h","a","l","f">>),
    rx_wb \o rx_lit(<<"e","m","u","l","s","i","f","i","c","a","t","i","o","n">>) \o rx_plus(WS) \o rx_lit(<<"i","n">>),
    rx_wb \o rx_lit(<<"p","o","p","u","l","a","r">>) \o rx_plus(WS) \o rx_lit(<<"i","n">>),
    rx_wb \o rx_lit(<<"m","a","r","i","n","a","t","e","d">>) \o rx_plus(WS) \o rx_lit(<<"i","n">>) \o rx_plus(WS) \o rx_plus(WORD) \o rx_lit(<<"s">>) \o rx_eol,
    rx_wb \o rx_lit(<<"s","t","u","f","f","e","d">>) \o rx_plus(WS) \o rx_lit(<<"i","n">>) \o rx_plus(WS),
    rx_wb \o rx_lit(<<"j","a","l","a","p","e","n_tilde","o","s">>) \o rx_plus(WS) \o rx_lit(<<"i","n">>) \o rx_plus(WS) \o rx_lit(<<"a","n">>) \o rx_plus(WS),
    rx_wb \o rx_lit(<<"m","u","s","s","e","l","s">>) \o rx_plus(WS) \o rx_lit(<<"i","n">>) \o rx_plus(WS) \o rx_lit(<<"a">>) \o rx_plus(WS),
    rx_wb \o rx_lit(<<"s","h","o","r","t">>) \o rx_plus(WS) \o rx_lit(<<"r","i","b","s">>) \o rx_plus(WS) \o rx_lit(<<"a","r","e">>) \o rx_plus(WS),
    rx_wb \o rx_lit(<<"p","e","p","p","e","r","s">>) \o rx_plus(WS) \o rx_lit(<<"a","r","e">>) \o rx_plus(WS) \o rx_lit(<<"s","m","o","k","e","d">>),
    rx_wb \o rx_lit(<<"r","o","s","e","m","a","r","y">>) \o rx_plus(WS) \o rx_lit(<<"i","s">>) \o rx_plus(WS) \o rx_lit(<<"m","i","l","d","e","r">>),
    rx_wb \o rx_lit(<<"i">>) \o rx_opt({"'"}) \o rx_lit(<<"d">>) \o rx_plus(WS) \o rx_lit(<<"t","o","s","s">>) \o rx_plus(WS) \o rx_lit(<<"i","n">>),
    rx_wb \o rx_lit(<<"s","u","m","m","e","r">>) \o rx_plus(WS) \o rx_lit(<<"w","h","e","n">>) \o rx_plus(WS) \o rx_lit(<<"t","h","e","y">>),
    rx_wb \o rx_lit(<<"b","a","b","y">>) \o rx_plus(WS) \o rx_lit(<<"r","o","u","n","d">>) \o rx_plus(WS) \o rx_lit(<<"c","a","r","r","o","t","s">>) \o rx_plus(WS) \o rx_lit(<<"i","n">>),
    rx_wb \o rx_lit(<<"b","r","a","i","s","e","d">>) \o rx_plus(WS) \o rx_lit(<<"s","h","o","r","t">>) \o rx_plus(WS) \o rx_lit(<<"r","i","b","s">>) \o rx_plus(WS) \o rx_lit(<<"i","n">>),
    rx_wb \o rx_lit(<<"r","o","u","n","d">>) \o rx_plus(WS) \o rx_lit(<<"c","a","r","r","o","t","s">>) \o rx_plus(WS) \o rx_lit(<<"i","n">>)>>

is_single_ingredient(node_id) ==
    LET single(low) ==
            /\ ~startswith(low, <<"a","n","d"," ">>) /\ ~startswith(low, <<"a","n","d","/","o","r">>)
            /\ Len(split_ws(low)) <= 4                               \* too many words
            /\ \A i \in DOMAIN PHRASE_PATTERNS : ~re_search(PHRASE_PATTERNS[i], low)
            /\ ~(/\ contains(low, <<" ","i","n"," ">>)
                 /\ \E x \in {<<"s","a","u","c","e">>, <<"b","u","t","t","e","r">>, <<"w","i","n","e">>,
                              <<"p","a","n">>, <<"d","e","s","s","e","r","t">>} : contains(low, x))
    IN single(strip(lower(node_id)))

\* singular_map, as the set of its items
singular_map == {
    <<<<"a","p","r","i","c","o","t","s">>, <<"a","p","r","i","c","o","t">>>>,
    <<<<"a","p","p","l","e","s">>, <<"a","p","p","l","e">>>>,
    <<<<"b","a","n","a","n","a","s">>, <<"b","a","n","a","n","a">>>>,
    <<<<"b","e","a","n","s">>, <<"b","e","a","n","s">>>>,
    <<<<"b","e","r","r","i","e","s">>, <<"b","e","r","r","y">>>>,
    <<<<"c","a","r","r","o","t","s">>, <<"c","a","r","r","o","t">>>>,
    <<<<"c","h","e","r","r","i","e","s">>, <<"c","h","e","r","r","y">>>>,
    <<<<"d","a","t","e","s">>, <<"d","a","t","e">>>>, <<<<"f","i","g","s">>, <<"f","i","g">>>>,
    <<<<"g","r","a","p","e","s">>, <<"g","r","a","p","e">>>>,
    <<<<"l","e","m","o","n","s">>, <<"l","e","m","o","n">>>>,
    <<<<"l","i","m","e","s">>, <<"l","i","m","e">>>>,
    <<<<"m","a","n","g","o","e","s">>, <<"m","a","n","g","o">>>>,
    <<<<"m","a","n","g","o","s">>, <<"m","a","n","g","o">>>>,
    <<<<"m","e","l","o","n","s">>, <<"m","e","l","o","n">>>>,
    <<<<"o","l","i","v","e","s">>, <<"o","l","i","v","e">>>>,
    <<<<"o","n","i","o","n","s">>, <<"o","n","i","o","n">>>>,
    <<<<"o","r","a","n","g","e","s">>, <<"o","r","a","n","g","e">>>>,
    <<<<"p","e","a","c","h","e","s">>, <<"p","e","a","c","h">>>>,
    <<<<"p","e","a","r","s">>, <<"p","e","a","r">>>>, <<<<"p","e","a","s">>, <<"p","e","a">>>>,
    <<<<"p","e","p","p","e","r","s">>, <<"p","e","p","p","e","r">>>>,
    <<<<"p","l","u","m","s">>, <<"p","l","u","m">>>>,
    <<<<"p","o","t","a","t","o","e","s">>, <<"p","o","t","a","t","o">>>>,
    <<<<"t","o","m","a","t","o","e","s">>, <<"t","o","m","a","t","o">>>>,
    <<<<"w","a","l","n","u","t","s">>, <<"w","a","l","n","u","t">>>>,
    <<<<"a","l","m","o","n","d","s">>, <<"a","l","m","o","n","d">>>>,
    <<<<"a","n","c","h","o","v","i","e","s">>, <<"a","n","c","h","o","v","y">>>>,
    <<<<"c","l","a","m","s">>, <<"c","l","a","m">>>>,
    <<<<"m","u","s","s","e","l","s">>, <<"m","u","s","s","e","l">>>>,
    <<<<"o","y","s","t","e","r","s">>, <<"o","y","s","t","e","r">>>>,
    <<<<"s","c","a","l","l","o","p","s">>, <<"s","c","a","l","l","o","p">>>>,
    <<<<"s","h","r","i","m","p","s">>, <<"s","h","r","i","m","p">>>>,
    <<<<"s","h","r","i","m","p">>, <<"s","h","r","i","m","p">>>>,
    <<<<"h","e","r","b","s">>, <<"h","e","r","b","s">>>>,
    <<<<"s","p","i","c","e","s">>, <<"s","p","i","c","e","s">>>>}

\* f"{x} {y}"
fmt(x, y) == x \o <<" ">> \o y

\* the rules for "X, Y" (a, b = lower.split(", ", 1)), first match wins
comma_rules(a, b) ==
            IF b \in {<<"t","h","a","i">>, <<"l","e","m","o","n">>, <<"s","w","e","e","t">>, <<"h","o","l","y">>} THEN fmt(b, a) ELSE
            IF b = <<"s","t","a","r">> THEN <<"s","t","a","r"," ","a","n","i","s","e">> ELSE
            IF a = <<"o","i","l">> /\ b # <<>> THEN fmt(b, <<"o","i","l">>) ELSE
            IF a = <<"v","i","n","e","g","a","r">> /\ b # <<>> THEN fmt(b, <<"v","i","n","e","g","a","r">>) ELSE
            IF a = <<"b","a","l","s","a","m","i","c">> /\ contains(b, <<"v","i","n","e","g","a","r">>) THEN fmt(b, a) ELSE
            IF a = <<"p","e","p","p","e","r">> /\ b \in {<<"b","l","a","c","k">>, <<"w","h","i","t","e">>} THEN fmt(b, <<"p","e","p","p","e","r">>) ELSE
            IF a = <<"c","r","e","a","m">> /\ b # <<>> THEN fmt(b, <<"c","r","e","a","m">>) ELSE
            IF a = <<"c","h","i","c","k","e","n">> /\ b # <<>> THEN fmt(b, <<"c","h","i","c","k","e","n">>) ELSE
            IF a = <<"c","r","a","b">> /\ b # <<>> THEN fmt(b, <<"c","r","a","b">>) ELSE
            IF a = <<"c","h","o","c","o","l","a","t","e">> /\ b # <<>> THEN fmt(b, <<"c","h","o","c","o","l","a","t","e">>) ELSE
            IF a = <<"h","a","m">> /\ b # <<>> THEN fmt(b, <<"h","a","m">>) ELSE
            IF a = <<"h","o","n","e","y">> /\ b # <<>> THEN fmt(b, <<"h","o","n","e","y">>) ELSE
            IF a = <<"l","a","m","b">> /\ b # <<>>
            THEN (IF b \in {<<"c","h","o","p","s">>, <<"s","h","a","n","k">>} THEN fmt(a, b) ELSE fmt(b, a)) ELSE
            IF a \in {<<"l","e","m","o","n">>, <<"l","i","m","e">>, <<"o","r","a","n","g","e">>} /\ b = <<"j","u","i","c","e">>
            THEN fmt(a, <<"j","u","i","c","e">>) ELSE
            IF a = <<"l","e","t","t","u","c","e">> /\ b # <<>> THEN fmt(b, <<"l","e","t","t","u","c","e">>) ELSE
            IF a = <<"l","i","v","e","r">> /\ b # <<>> THEN fmt(b, <<"l","i","v","e","r">>) ELSE
            IF a = <<"m","i","n","t">> /\ b = <<"p","e","p","p","e","r","m","i","n","t">> THEN <<"p","e","p","p","e","r","m","i","n","t">> ELSE
            IF a = <<"m","i","n","t">> /\ b # <<>> THEN fmt(b, <<"m","i","n","t">>) ELSE
            IF a = <<"m","u","s","t","a","r","d">> /\ b # <<>> THEN fmt(b, <<"m","u","s","t","a","r","d">>) ELSE
            IF a = <<"p","a","p","r","i","k","a">> /\ b # <<>> THEN fmt(b, <<"p","a","p","r","i","k","a">>) ELSE
            IF a = <<"p","a","r","s","l","e","y">> /\ b # <<>> THEN fmt(b, <<"p","a","r","s","l","e","y">>) ELSE
            IF a = <<"r","i","c","e">> /\ b # <<>> THEN fmt(b, <<"r","i","c","e">>) ELSE
            IF a \in {<<"s","a","l","m","o","n">>, <<"t","r","o","u","t">>} /\ b # <<>> THEN fmt(b, a) ELSE
            IF a = <<"s","a","l","t">> /\ b # <<>>
            THEN (IF ~contains(b, <<" ">>) THEN fmt(b, <<"s","a","l","t">>) ELSE b) ELSE
            IF a = <<"s","a","v","o","r","y">> /\ b # <<>> THEN fmt(b, <<"s","a","v","o","r","y">>) ELSE
            IF a = <<"s","t","o","c","k">> /\ b # <<>> THEN fmt(b, <<"s","t","o","c","k">>) ELSE
            IF a = <<"s","u","g","a","r">> /\ b # <<>> THEN fmt(b, <<"s","u","g","a","r">>) ELSE
            IF a = <<"w","i","n","e">> /\ b # <<>> THEN fmt(b, <<"w","i","n","e">>) ELSE
            IF a = <<"c","a","b","b","a","g","e">> /\ b # <<>> THEN fmt(b, <<"c","a","b","b","a","g","e">>) ELSE
            IF a = <<"p","e","p","p","e","r">> /\ b # <<>> /\ b \notin {<<"b","l","a","c","k">>, <<"w","h","i","t","e">>}
            THEN fmt(b, <<"p","e","p","p","e","r">>) ELSE
            IF a = <<"b","u","t","t","e","r">> /\ b \in {<<"u","n","s","a","l","t","e","d">>, <<"s","a","l","t","e","d">>} THEN <<"b","u","t","t","e","r">> ELSE
            IF a \in {<<"b","a","s","s">>, <<"c","o","d">>, <<"f","i","s","h">>} /\ b # <<>> THEN fmt(b, a) ELSE
            IF endswith(a, <<"s">>) /\ b # <<>> THEN fmt(b, SubSeq(a, 1, Len(a) - 1)) ELSE
            IF b \in {<<"g","r","o","u","n","d">>, <<"w","h","o","l","e">>, <<"m","i","n","c","e","d">>,
                     <<"c","h","o","p","p","e","d">>, <<"s","l","i","c","e","d">>} THEN a ELSE
            fmt(b, a)

RECURSIVE normalize_to_canonical(_)
normalize_to_canonical(name) ==
    LET colon(cat, ing) ==
            IF cat \in {<<"l","i","q","u","e","u","r","s">>, <<"v","i","n","e","g","a","r">>, <<"o","i","l">>, <<"w","i","n","e">>}
            THEN strip(fmt(strip(ing), rstrip(cat, {"s"})))
            ELSE strip(ing)
        colon_at(kv) == colon(kv[1], kv[2])
        comma_at(ab) == comma_rules(ab[1], ab[2])
        first_bean(parts) == fmt(parts[1], <<"b","e","a","n","s">>)
        singular(low) ==
            IF \E p \in singular_map : p[1] = low
            THEN (CHOOSE p \in singular_map : p[1] = low)[2]
            ELSE low
        canon(low) ==
            IF contains(low, <<":", " ">>) THEN colon_at(split1(low, <<":", " ">>))
            ELSE IF contains(low, <<","," ","d","r","i","e","d">>)
            THEN normalize_to_canonical(strip(replace(low, <<","," ","d","r","i","e","d">>, <<>>)))
            ELSE IF startswith(low, <<"d","r","i","e","d"," ">>)
            THEN normalize_to_canonical(strip(SubSeq(low, 7, Len(low))))
            ELSE IF contains(low, <<","," ","f","r","e","s","h">>)
            THEN normalize_to_canonical(strip(replace(low, <<","," ","f","r","e","s","h">>, <<>>)))
            ELSE IF contains(low, <<","," ","c","a","n","n","e","d">>)
            THEN normalize_to_canonical(strip(replace(low, <<","," ","c","a","n","n","e","d">>, <<>>)))
            ELSE IF startswith(low, <<"c","h","e","e","s","e",","," ">>)
            THEN strip(replace(low, <<"c","h","e","e","s","e",","," ">>, <<>>))
            ELSE IF startswith(low, <<"b","e","a","n","s",","," ">>)
            THEN first_bean(split(replace(low, <<"b","e","a","n","s",","," ">>, <<>>), <<",", " ">>))
            ELSE IF contains(low, <<",", " ">>) THEN comma_at(split1(low, <<",", " ">>))
            ELSE singular(low)
    IN canon(strip(lower(name)))

expand_comma_to_canonicals(name) ==
    LET chocolates(variants) == [i \in DOMAIN variants |-> fmt(variants[i], <<"c","h","o","c","o","l","a","t","e">>)]
        expand(parts) ==
            IF parts[1] = <<"c","h","o","c","o","l","a","t","e">> /\ Len(parts) - 1 >= 2
            THEN chocolates(Tail(parts))
            ELSE <<normalize_to_canonical(name)>>
        stripped(parts) == [i \in DOMAIN parts |-> strip(parts[i])]
        canonicals(low) ==
            IF ~contains(low, <<",", " ">>) THEN <<normalize_to_canonical(low)>>
            ELSE expand(stripped(split(low, <<",", " ">>)))
    IN canonicals(strip(lower(name)))

\* main, lines 285-294: id_to_canonicals[orig]
id_to_canonicals(orig) ==
    LET compound == \/ contains(orig, <<" ","b","r","a","n","d","y">>) \/ contains(orig, <<" ","l","i","q","u","e","u","r">>)
                    \/ contains(orig, <<" ","w","i","n","e">>) \/ contains(orig, <<" ","v","i","n","e","g","a","r">>)
        kept_apart(canon) ==
            /\ orig # canon
            /\ canon \in {<<"a","p","r","i","c","o","t">>, <<"c","h","e","r","r","y">>, <<"o","r","a","n","g","e">>, <<"p","e","a","c","h">>}
    IN IF compound /\ kept_apart(normalize_to_canonical(orig))
       THEN <<orig>>
       ELSE expand_comma_to_canonicals(orig)

-----------------------------------------------------------------------------
(* filter_non_food_and_isolated.py: the word lists and is_food_item          *)

NON_FOOD_WORDS == {
    <<"a","c","i","d","i","t","y">>, <<"a","d","d">>, <<"a","d","d","s">>, <<"a","d","u","l","t">>,
    <<"a","p","p","e","t","i","z","e","r","s">>, <<"a","p","r","i","l">>,
    <<"a","r","i","z","o","n","a">>, <<"a","r","o","m","a">>, <<"a","r","o","u","n","d">>,
    <<"a","r","t","i","f","i","c","i","a","l">>, <<"a","r","t","i","s","a","n","a","l">>,
    <<"a","s","i","a","t","e">>, <<"a","s","k">>, <<"a","s","t","r","i","n","g","e","n","c","y">>,
    <<"a","u","g","u","s","t">>, <<"a","u","t","u","m","n">>, <<"a","v","o","i","d">>,
    <<"a","z","e","i","t","a","o">>, <<"b","a","b","b","o">>, <<"b","a","b","y">>,
    <<"b","a","c","k">>, <<"b","a","k","i","n","g">>, <<"b","a","l","a","n","c","e">>,
    <<"b","a","l","m">>, <<"b","a","r","b","a","t","e">>, <<"b","a","r","b","e","c","u","e">>,
    <<"b","a","r","b","e","c","u","e","d">>, <<"b","e","l","l","y">>,
    <<"b","e","r","k","s","w","e","l","l">>, <<"b","e","v","e","r","a","g","e","s">>,
    <<"b","i","t","t","e","r">>, <<"b","i","t","t","e","r","n","e","s","s">>,
    <<"b","i","t","t","e","r","s">>, <<"b","l","a","c","k">>,
    <<"b","r","e","a","k","f","a","s","t">>, <<"b","r","o","i","l","e","d">>,
    <<"b","r","o","w","n">>, <<"b","u","t">>, <<"c","a","n","n","e","d">>,
    <<"c","a","t","a","l","o","g","s">>, <<"c","h","o","p","p","e","d">>, <<"c","o","l","d">>,
    <<"c","o","l","o","r">>, <<"c","o","n","v","e","n","t","i","o","n","a","l">>,
    <<"c","o","o","k","e","d">>, <<"c","o","o","l","i","n","g">>, <<"c","r","e","s","s">>,
    <<"c","r","u","n","c","h">>, <<"c","r","u","n","c","h","y">>, <<"c","r","u","s","t">>,
    <<"c","r","u","s","t","s">>, <<"c","u","i","s","i","n","e","s">>, <<"d","a","r","k">>,
    <<"d","e","c","e","m","b","e","r">>, <<"d","e","e","p","e","r">>,
    <<"d","e","e","p","e","r"," ","f","l","a","v","o","r">>, <<"d","e","s","s","e","r","t","s">>,
    <<"d","i","c","e","d">>, <<"d","i","n","n","e","r">>, <<"d","i","s","h","e","s">>,
    <<"d","o","n","e">>, <<"d","r","i","e","d">>, <<"d","r","y">>,
    <<"e","u","r","o","p","e","a","n">>, <<"e","x","a","m","p","l","e">>, <<"f","a","l","l">>,
    <<"f","a","t","t","i","e","r">>, <<"f","a","t","t","y">>, <<"f","e","b","r","u","a","r","y">>,
    <<"f","e","r","m","e","n","t","e","d">>, <<"f","i","r","s","t">>, <<"f","l","a","k","e","s">>,
    <<"f","l","a","k","y">>, <<"f","o","o","d","s">>, <<"f","r","e","s","h">>,
    <<"f","r","o","z","e","n">>, <<"g","o","o","d">>, <<"g","r","a","i","n","y">>,
    <<"g","r","e","a","s","y">>, <<"g","r","e","e","n">>, <<"g","r","i","l","l","e","d">>,
    <<"g","r","o","u","n","d">>, <<"h","a","l","f">>, <<"h","a","r","d">>,
    <<"h","e","a","r","t","i","e","r">>, <<"h","e","a","t">>, <<"h","e","a","v","y">>,
    <<"h","o","t">>, <<"i","n","g","r","e","d","i","e","n","t">>,
    <<"i","n","g","r","e","d","i","e","n","t","s">>, <<"j","a","n","u","a","r","y">>,
    <<"j","u","l","y">>, <<"j","u","n","e">>, <<"l","e","a","n">>, <<"l","i","g","h","t">>,
    <<"l","i","g","h","t","e","r">>, <<"l","u","n","c","h">>,
    <<"l","u","x","u","r","i","o","u","s">>, <<"m","a","n","y">>, <<"m","a","r","c","h">>,
    <<"m","a","y">>, <<"m","e","a","l">>, <<"m","e","a","t","i","e","r">>,
    <<"m","e","t","h","o","d">>, <<"m","i","l","d">>, <<"m","i","n","c","e","d">>,
    <<"m","o","s","t">>, <<"n","a","t","u","r","a","l">>, <<"n","e","w">>, <<"n","i","c","e">>,
    <<"n","o","v","e","m","b","e","r">>, <<"o","c","t","o","b","e","r">>, <<"o","f","f">>,
    <<"o","l","d">>, <<"o","r","g","a","n","i","c">>, <<"o","t","h","e","r">>,
    <<"p","o","w","d","e","r">>, <<"r","a","w">>, <<"r","e","d">>,
    <<"r","e","f","r","e","s","h","i","n","g">>, <<"r","i","c","h">>, <<"r","i","p","e">>,
    <<"r","u","b">>, <<"r","u","b","s">>, <<"s","a","l","t","y">>, <<"s","a","u","c","e">>,
    <<"s","a","u","c","e","s">>, <<"s","e","a","s","o","n">>, <<"s","e","a","s","o","n","s">>,
    <<"s","e","e">>, <<"s","e","e","d","l","e","s","s">>, <<"s","e","p","t","e","m","b","e","r">>,
    <<"s","e","r","v","e">>, <<"s","e","r","v","e","d">>, <<"s","e","r","v","i","n","g">>,
    <<"s","l","i","c","e","d">>, <<"s","n","a","c","k">>, <<"s","o","f","t">>, <<"s","o","u","r">>,
    <<"s","p","r","i","n","g">>, <<"s","t","a","r","c","h">>, <<"s","t","r","o","n","g">>,
    <<"s","t","r","o","n","g","e","r">>, <<"s","u","m","m","e","r">>, <<"s","w","e","e","t">>,
    <<"s","w","e","e","t","e","r">>, <<"s","w","e","e","t","n","e","s","s">>,
    <<"t","e","c","h","n","i","q","u","e">>, <<"t","e","x","t","u","r","e">>, <<"t","h","e">>,
    <<"t","h","e","n">>, <<"t","h","i","c","k","e","n","e","r">>, <<"t","r","y">>,
    <<"u","m","a","m","i">>, <<"u","n","r","i","p","e">>, <<"u","s","e">>,
    <<"v","e","l","v","e","t","y">>, <<"w","a","r","m">>, <<"w","a","r","m","i","n","g">>,
    <<"w","e","t">>, <<"w","h","i","c","h">>, <<"w","h","i","t","e">>, <<"w","h","o","l","e">>,
    <<"w","i","n","t","e","r">>, <<"w","i","t","h">>, <<"w","o","r","l","d">>,
    <<"y","e","l","l","o","w">>, <<"y","o","u">>, <<"y","o","u","n","g">>}

NON_FOOD_SUBSTRINGS == {
    <<" ","a","n","d"," ","o","t","h","e","r"," ">>, <<" ","a","n","d","/","o","r"," ">>,
    <<" ","a","p","p","e","t","i","z","e","r","s">>, <<" ","a","s"," ","a"," ">>,
    <<" ","a","s"," ","c","r","u","s","t">>, <<" ","a","s"," ","d","e","s","s","e","r","t">>,
    <<" ","b","e","v","e","r","a","g","e","s">>, <<" ","b","i","s","t","r","o">>,
    <<" ","b","r","a","s","s","e","r","i","e">>, <<" ","c","u","i","s","i","n","e","s">>,
    <<" ","d","i","s","h","e","s">>, <<" ","e","a","t"," ","p","l","a","c","e">>,
    <<" ","f","o","o","d","s">>, <<" ","f","o","r"," ","g","r","a","n","t","e","d">>,
    <<" ","g","r","i","l","l">>,
    <<" ","h","a","v","e"," ","t","w","o"," ","f","a","v","o","r","i","t","e">>,
    <<" ","h","e"," ","s","a","i","d">>, <<" ","h","o","b","o","k","e","n">>,
    <<" ","i"," ","l","i","k","e">>, <<" ","i"," ","r","e","c","e","n","t","l","y">>,
    <<" ","i"," ","u","s","e"," ","t","h","e">>,
    <<" ","i","n"," ","t","e","r","m","s"," ","o","f">>, <<" ","k","n","e","w"," ","i","t">>,
    <<" ","o","f"," ","c","o","u","r","s","e">>, <<" ","r","e","s","t","a","u","r","a","n","t">>,
    <<" ","r","o","o","m">>, <<" ","s","e","e"," ">>, <<" ","s","e","e"," ","a","l","s","o">>,
    <<" ","s","o"," ","m","a","n","y"," ","c","h","i","l","d","h","o","o","d">>,
    <<" ","s","p","r","e","a","d"," ","t","h","e","m"," ","o","u","t">>,
    <<" ","t","h","e","n"," ","a","d","d">>, <<" ","t","h","e","n"," ","w","i","p","e">>,
    <<" ","t","h","r","o","w"," ","i","t"," ","o","u","t">>, <<" ","t","o"," ">>,
    <<" ","t","o"," ","f","i","n","i","s","h"," ","t","h","i","s">>,
    <<" ","u","s","e","d"," ","t","h","e"," ","h","u","s","k","s">>,
    <<" ","u","s","i","n","g"," ","s","m","o","k","e","d"," ","s","a","l","t">>,
    <<" ","v","i","e","n","n","a">>, <<" ","v","i","r","t","u","a","l","l","y"," ","a","l","l">>,
    <<" ","w","a","s","h"," ","g","r","e","e","n","s">>,
    <<" ","w","a","s","h","i","n","g","t","o","n">>, <<" ","w","e"," ","t","a","s","t","e","d">>,
    <<" ","w","h","i","c","h"," ","a","d","d","s">>, <<" ","w","h","i","c","h"," ","i">>,
    <<" ","w","h","i","c","h"," ","i","s">>, <<" ","w","h","i","c","h"," ","m","a","k","e","s">>,
    <<" ","w","h","i","c","h"," ","m","e","a","n","s">>,
    <<" ","w","h","i","c","h"," ","p","r","o","d","u","c","e">>,
    <<" ","w","h","i","c","h"," ","t","h","e","y">>,
    <<" ","w","h","i","l","e"," ","i","n"," ","l","a","r","g","e">>,
    <<" ","y","o","u"," ","c","a","n">>, <<" ","y","o","u"," ","w","o","u","l","d","n","'","t">>,
    <<" ","y","o","u","r"," ","l","i","f","e">>,
    <<"b","r","i","n","e","d"," ","f","i","r","s","t">>, <<"c","a","f","e"," ">>,
    <<"c","a","f","e_acute"," ">>, <<"f","o","r"," ","b","r","a","i","s","i","n","g">>,
    <<"f","o","r"," ","p","o","u","l","t","r","y">>, <<"f","o","r"," ","s","u","s","h","i">>,
    <<"i","n","g","r","e","d","i","e","n","t">>, <<"m","e","t","h","o","d">>, <<"EMDASH"," ">>,
    <<"EMDASH","d","a","v","i","d">>}

PLACE_NAMES == {
    <<"a","l","a","b","a","m","a">>, <<"a","r","i","z","o","n","a">>, <<"b","o","s","t","o","n">>,
    <<"c","a","l","i","f","o","r","n","i","a">>, <<"e","a","s","t","e","r","n">>,
    <<"f","l","o","r","i","d","a">>, <<"f","r","a","n","c","e">>, <<"i","d","a","h","o">>,
    <<"j","a","p","a","n">>, <<"m","a","s","s","a","c","h","u","s","e","t","t","s">>,
    <<"n","e","w"," ","e","n","g","l","a","n","d">>, <<"n","e","w"," ","j","e","r","s","e","y">>,
    <<"n","e","w"," ","y","o","r","k">>, <<"n","o","r","t","h","e","r","n">>,
    <<"o","r","e","g","o","n">>, <<"p","e","k","i","n","g">>,
    <<"p","o","c","a","n","t","i","c","o">>, <<"r","o","m","e">>, <<"s","o","n","o","m","a">>,
    <<"s","o","u","t","h","e","r","n">>, <<"s","p","a","i","n">>,
    <<"s","z","e","c","h","u","a","n">>, <<"t","u","s","c","a","n">>,
    <<"v","e","n","e","t","i","a","n">>, <<"v","e","r","m","o","n","t">>,
    <<"v","i","r","g","i","n","i","a">>, <<"w","a","s","h","i","n","g","t","o","n">>}

RESTAURANT_PATTERNS == {
    <<"b","r","a","s","s","e","r","i","e"," ","j","o">>,
    <<"c","a","f","e_acute"," ","a","n","n","i","e">>,
    <<"c","a","f","e_acute"," ","b","o","u","l","u","d">>,
    <<"c","a","f","e_acute"," ","g","r","a","y">>,
    <<"c","a","f","e_acute"," ","j","u","a","n","i","t","a">>, <<"c","a","s","h","i","o","n">>,
    <<"c","h","a","r","l","i","e"," ","t","r","o","t","t","e","r">>,
    <<"c","i","t","r","o","n","e","l","l","e">>, <<"c","o","l","v","i","n"," ","r","u","n">>,
    <<"c","u","c","h","a","r","a","m","a","m","a">>, <<"d","a","n","i","e","l">>,
    <<"e","l","e","v","e","n"," ","m","a","d","i","s","o","n"," ","p","a","r","k">>,
    <<"e","s","c","a">>, <<"e","v","e","r","e","s","t">>, <<"f","a","r","a","l","l","o","n">>,
    <<"f","e","l","i","d","i","a">>, <<"f","r","o","n","t","e","r","a"," ","g","r","i","l","l">>,
    <<"g","a","r","y"," ","d","a","n","k","o">>, <<"g","i","l","t">>, <<"h","o","o","k">>,
    <<"i","m","p","e","r","i","a","l"," ","f","e","z">>,
    <<"j","e","a","n"," ","g","e","o","r","g","e","s">>, <<"k","i","n","k","e","a","d">>,
    <<"l","a"," ","c","o_circ","t","e"," ","b","r","a","s","s","e","r","i","e">>,
    <<"l","e"," ","b","e","r","n","a","r","d","i","n">>,
    <<"l","o","c","k","e","-","o","b","e","r">>, <<"m","o","n","d","a","y"," ","r","o","o","m">>,
    <<"n","a","h","a">>, <<"n","o","b","u">>,
    <<"o","s","t","e","r","i","a"," ","m","o","z","z","a">>, <<"p","a","y","a","r","d">>,
    <<"r","o","v","e","r","'","s">>, <<"s","a","n"," ","d","o","m","e","n","i","c","o">>,
    <<"s","a","n","f","o","r","d">>, <<"t","'","a","f","i","a">>,
    <<"t","o","p","o","l","o","b","a","m","p","o">>, <<"t","r","a","d","e"," ","l","a","k","e">>,
    <<"t","i_acute","a"," ","p","o","l">>,
    <<"u","n","i","o","n"," ","s","q","u","a","r","e"," ","c","a","f","e_acute">>,
    <<"v","e","r","i","t","a","s">>, <<"v","i","j","'","s">>, <<"z","a","f","r","a">>,
    <<"z","u","n","i"," ","c","a","f","e_acute">>}

NON_FOOD_PHRASES == {
    <<" ","a","n","d"," ","w","i","l","l">>,
    <<"a","r","o","u","n","d"," ","t","h","e"," ","w","o","r","l","d">>,
    <<"a","s"," ","a"," ","c","r","u","s","t">>, <<"a","s"," ","a"," ","k","i","d">>,
    <<"a","s"," ","c","r","u","s","t">>, <<"a","s"," ","d","e","s","s","e","r","t">>,
    <<"a","s"," ","f","r","u","i","t"," ","c","r","y","s","t","a","l","s"," ","t","o">>,
    <<"a","u","t","u","m","n"," ","a","n","d"," ","d","r","i","e","d">>,
    <<"b","a","b","y"," ","r","o","u","n","d">>,
    <<"b","a","r","b","e","c","u","e"," ","d","i","s","h","e","s">>,
    <<"b","a","r","b","e","c","u","e","d"," ","f","o","o","d","s">>,
    <<"b","i","t","t","e","r"," ","/"," ","w","i","n","t","e","r">>,
    <<"b","l","a","c","k"," ","o","r"," ","k","a","l","a","m","a","t","a">>,
    <<"b","l","a","c","k"," ","o","r"," ","k","i","d","n","e","y">>,
    <<"b","l","a","c","k"," ","o","r"," ","r","e","d">>,
    <<"b","l","u","e","b","e","r","r","i","e","s"," ","f","o","r"," ","t","h","e"," ","s","u","m","m","e","r">>,
    <<"b","r","o","i","l","e","d"," ","d","i","s","h","e","s">>,
    <<"c","a","f","e_acute"," ","c","o","n"," ","l","e","c","h","e">>,
    <<"c","a","l","f","'","s"," ","l","i","v","e","r"," ","s","e","e"," ","l","i","v","e","r">>,
    <<"c","o","o","k"," ","a","l"," ","d","e","n","t","e">>,
    <<"c","o","o","k","e","d"," ","a","n","d"," ","r","a","w">>,
    <<"f","i","n","e","s"," ","h","e","r","b","e","s"," ","i","n","g","r","e","d","i","e","n","t">>,
    <<"f","r","e","s","h"," ","s","h","e","l","l">>,
    <<"f","r","u","i","t","s"," ","a","n","d"," ","f","r","u","i","t"," ","j","u","i","c","e","s">>,
    <<"f","r","u","i","t","s"," ","a","n","d"," ","f","r","u","i","t"," ","s","a","u","c","e","s">>,
    <<"g","o","a","t"," ","/"," ","s","h","e","e","p"," ","c","h","e","e","s","e">>,
    <<"g","r","e","e","n"," ","p","a","s","t","a">>,
    <<"g","u","i","n","d","i","l","l","a"," ","o","r"," ","p","i","q","u","i","l","l","o">>,
    <<"i","c","e"," ","w","i","n","e"," ","w","i","n","e">>,
    <<"i","t"," ","a"," ","d","e","e","p">>,
    <<"i","t","'","s"," ","t","h","e","i","r"," ","s","m","e","l","l">>,
    <<"m","e","a","t","s"," ","a","n","d"," ","m","e","a","t"," ","l","o","a","f">>,
    <<"n","a","m","e"," ","o","f"," ","t","h","e"," ","d","i","s","h">>,
    <<"o","f"," ","a","l","l"," ","v","e","g","e","t","a","b","l","e","s">>,
    <<"o","f"," ","c","o","u","r","s","e">>, <<"o","f"," ","t","h","e"," ","b","r","i","n","e">>,
    <<"o","r"," ","b","o","m","b","a">>, <<"o","r"," ","c","a","r","n","a","r","o","l","i">>,
    <<"o","r"," ","p","i","q","u","i","l","l","o">>, <<"o","r"," ","r","a","i","s","i","n","s">>,
    <<"o","r"," ","r","o","a","s","t","e","d">>, <<"o","r"," ","s","t","i","n","k","y">>,
    <<"s","e","e"," ","a","l","s","o">>, <<"s","e","e","d","l","e","s","s">>,
    <<"s","e","r","v","e">>,
    <<"s","o"," ","m","a","n","y"," ","c","h","i","l","d","h","o","o","d">>,
    <<"s","o","m","e"," ","h","i","g","h","-","f","i","b","e","r"," ","v","i","t","a","m","i","n">>,
    <<"s","o","m","e"," ","w","a","t","e","r">>,
    <<"s","o","u","r"," ","n","o","t","e","s"," ","e","n","h","a","n","c","e"," ","b","i","t","t","e","r","n","e","s","s">>,
    <<"t","h","e","n"," ","w","i","p","e"," ","o","f","f"," ","t","h","e">>,
    <<"t","h","e","s","e"," ","s","h","o","r","t">>,
    <<"t","o"," ","f","i","n","i","s","h"," ","t","h","i","s"," ","d","i","s","h">>,
    <<"u","s","e","d"," ","t","h","e"," ","h","u","s","k","s">>,
    <<"u","s","i","n","g"," ","s","m","o","k","e","d"," ","s","a","l","t"," ","p","r","o","v","i","d","e","s">>,
    <<"v","e","g","e","t","a","b","l","e","s"," ","a","n","d"," ","r","o","o","t"," ","v","e","g","e","t","a","b","l","e","s">>,
    <<"v","e","g","e","t","a","b","l","e","s"," ","a","n","d"," ","v","e","g","e","t","a","b","l","e"," ","j","u","i","c","e","s">>,
    <<"v","i","r","t","u","a","l","l","y"," ","a","l","l"," ","v","e","g","e","t","a","b","l","e","s">>,
    <<"w","a","s"," ","s","e","a","r","e","d"," ","w","e","l","l">>,
    <<"w","e"," ","t","a","s","t","e","d"," ","i","t">>,
    <<"w","h","i","c","h"," ","a","d","d","s"," ","c","o","l","o","r">>,
    <<"w","h","i","c","h"," ","i"," ","p","a","i","r"," ","w","i","t","h">>,
    <<"w","h","i","c","h"," ","p","r","o","d","u","c","e"," ","a"," ","j","u","i","c","e">>,
    <<"w","h","i","c","h"," ","t","h","e","y"," ","a","d","d","e","d"," ","t","o">>,
    <<"w","h","i","l","e"," ","i","n"," ","l","a","r","g","e"," ","d","o","s","e","s">>,
    <<"y","o","u"," ","w","o","u","l","d","n","'","t">>, <<"y","o","u","r"," ","l","i","f","e">>}

\* standalone descriptors, not food names
DESCRIPTORS == {
    <<"b","a","b","y">>, <<"b","a","c","k">>, <<"b","a","l","m">>, <<"b","e","l","l","y">>,
    <<"b","i","t","t","e","r">>, <<"b","l","a","c","k">>, <<"b","r","o","w","n">>,
    <<"d","a","r","k">>, <<"l","i","g","h","t">>, <<"r","e","d">>, <<"g","r","e","e","n">>,
    <<"w","h","i","t","e">>, <<"y","e","l","l","o","w">>, <<"h","e","a","v","y">>,
    <<"f","a","l","l">>, <<"s","p","r","i","n","g">>, <<"s","u","m","m","e","r">>,
    <<"w","i","n","t","e","r">>}

is_food_item(node_id) ==
    LET food(low) ==
            /\ low \notin NON_FOOD_WORDS /\ low \notin NON_FOOD_PHRASES
            /\ low \notin PLACE_NAMES
            /\ \A r \in RESTAURANT_PATTERNS : ~contains(low, r)
            /\ ~(Len(split_ws(low)) = 1 /\ low \in NON_FOOD_WORDS)
            /\ \A phrase \in NON_FOOD_PHRASES : ~contains(low, phrase)
            /\ \A sub \in NON_FOOD_SUBSTRINGS : ~contains(low, sub)
            /\ ~contains(low, <<" ","o","r"," ">>) /\ ~contains(low, <<" ","/"," ">>)
            /\ ~contains(low, <<" ","s","e","e"," ">>) /\ ~startswith(low, <<"s","e","e"," ">>)
            /\ ~(\/ contains(low, <<" ","a","s"," ","a"," ">>)
                 \/ contains(low, <<" ","a","s"," ">>) /\ contains(low, <<" ","a","s"," ","c","r","u","s","t">>))
            /\ ~startswith(low, <<"a","n","d"," ">>) /\ ~startswith(low, <<"a","n","d","/","o","r">>)
            /\ Len(low) >= 3                                         \* too short
            /\ low \notin DESCRIPTORS
    IN food(strip(lower(node_id)))


-----------------------------------------------------------------------------
(* Python dict, set and list helpers.                                       *)

\* sorted(S), S a set of str
RECURSIVE sorted_strs(_)
sorted_strs(S) ==
    IF S = {} THEN <<>>
    ELSE LET m == CHOOSE x \in S : \A y \in S \ {x} : str_lt(x, y)
         IN <<m>> \o sorted_strs(S \ {m})

\* a dict is the list of its items [k, v], in insertion order
dict_keys(d) == {d[i].k : i \in DOMAIN d}
dict_get(d, key) == d[CHOOSE i \in DOMAIN d : d[i].k = key].v

\* pairings[a].add(b), pairings a defaultdict(set)
set_add(d, a, b) ==
    IF a \in dict_keys(d)
    THEN [i \in DOMAIN d |-> IF d[i].k = a THEN [k |-> a, v |-> d[i].v \cup {b}] ELSE d[i]]
    ELSE Append(d, [k |-> a, v |-> {b}])

\* every order in which iterating over the set S may yield its elements
iter_orders(S) == {f \in [1..Cardinality(S) -> S] : Range(f) = S}

\* for the dict d of sets, from item i on: every choice of an order for each set
RECURSIVE dict_orders(_, _)
dict_orders(d, i) ==
    IF i > Len(d) THEN {<<>>}
    ELSE {<<o>> \o rest : o \in iter_orders(d[i].v), rest \in dict_orders(d, i + 1)}

\* the sequences of at most n elements of S
RECURSIVE seqs_upto(_, _)
seqs_upto(S, n) ==
    IF n = 0 THEN {<<>>}
    ELSE LET longer(shorter) == shorter \cup {Append(s, x) : s \in shorter, x \in S}
         IN longer(seqs_upto(S, n - 1))

-----------------------------------------------------------------------------
(* extract_flavor_pairings.py: extract_from_pdf, build_edges, main          *)

\* the lines the documents of the model are made of: [text, bold]
LinePool == {
    [text |-> <<"G","A","R","L","I","C">>, bold |-> FALSE],
    [text |-> <<"o","n","i","o","n",","," ","o","l","i","v","e"," ","o","i","l",","," ","*","b","a","s","i","l">>, bold |-> FALSE],
    [text |-> <<"o","n","i","o","n">>, bold |-> TRUE],
    [text |-> <<"g","a","r","l","i","c"," ","+"," ","o","n","i","o","n"," ","+"," ","g","a","r","l","i","c">>, bold |-> FALSE],
    [text |-> <<"*","b","a","s","i","l",","," ","o","n","i","o","n">>, bold |-> FALSE],
    [text |-> <<"*","B","A","S","I","L">>, bold |-> FALSE],
    [text |-> <<"F","l","a","v","o","r"," ","A","f","f","i","n","i","t","i","e","s">>, bold |-> FALSE],
    [text |-> <<"a","c","h","i","o","t","e"," ","+"," ","p","o","r","k"," ","+"," ","s","o","u","r"," ","o","r","a","n","g","e">>, bold |-> FALSE],
    [text |-> <<"P","O","R","K"," ","+"," ","O","N","I","O","N">>, bold |-> FALSE],
    [text |-> <<"P","O","R","K"," ","+"," ","O","N","I","O","N","s">>, bold |-> FALSE],
    [text |-> <<"O","N","I","O","N",","," ","g","a","r","l","i","c">>, bold |-> FALSE],
    [text |-> <<"S","E","A","S","O","N",":"," ","F","A","L","L">>, bold |-> FALSE]}

\* the number of lines of a document
MaxLines == 3

\* what the line loop computes from the line l alone
line_facts(l) ==
    [marker |-> contains(lower(l.text), <<"f","l","a","v","o","r"," ","a","f","f","i","n","i","t">>),
     plus |-> contains(l.text, <<"+">>),
     upper |-> isupper(l.text),
     header |-> is_ingredient_header(l.text),
     norm_header |-> normalize_ingredient(strip(split(l.text, <<":">>)[1])),
     metadata |-> \E k \in METADATA_KEYS : startswith(lower(l.text), k),
     parts |-> affinity_parts(strip(l.text)),
     affinity |-> parse_flavor_affinity(l.text),
     parsed |-> parse_pairing_line(l.text, l.bold)]

\* every ingredient the line with the facts f can yield
line_ids(f) == {f.norm_header}
               \cup {f.parsed[i][1] : i \in DOMAIN f.parsed}
               \cup Range(f.parts)

\* the pure functions of the line loop on the lines of pool, computed once:
\* facts[l] is line_facts(l), valid the ingredients is_valid_ingredient accepts
extract_memo(pool) ==
    LET with(facts) ==
            [facts |-> facts,
             valid |-> {id \in UNION {line_ids(facts[l]) : l \in pool} :
                           is_valid_ingredient(id)}]
    IN with([l \in pool |-> line_facts(l)])

\* a faulty variant: the level observed last replaces the level of the pair
max_level_last(levels, a, b, level) ==
    [x \in DOMAIN levels \cup {{a, b}} |-> IF x = {a, b} THEN level ELSE levels[x]]

\* edge_levels[frozenset([a, b])] = max(edge_levels.get(frozenset([a, b]), 1), level)
max_level(levels, a, b, level) ==
    LET key == {a, b}
        old == IF key \in DOMAIN levels THEN levels[key] ELSE 1
        new == IF old >= level THEN old ELSE level
    IN [x \in DOMAIN levels \cup {key} |-> IF x = key THEN new ELSE levels[x]]

\* pairings[a].add(b); pairings[b].add(a)
add_pairing(d, a, b) == set_add(set_add(d, a, b), b, a)

\* the loop over the edges of an affinity line, from edge i on
RECURSIVE affinity_loop(_, _, _)
affinity_loop(acc, es, i) ==
    IF i > Len(es) THEN acc
    ELSE affinity_loop([pairings |-> add_pairing(acc.pairings, es[i][1], es[i][2]),
                        edge_levels |-> max_level(acc.edge_levels, es[i][1], es[i][2], 2),
                        observed |-> acc.observed \cup {<<{es[i][1], es[i][2]}, 2>>}],
                       es, i + 1)

\* a faulty variant: the ingredient of the section is paired with itself
RECURSIVE pairing_loop_reflexive(_, _, _, _)
pairing_loop_reflexive(acc, cur, parsed, i) ==
    IF i > Len(parsed) THEN acc
    ELSE pairing_loop_reflexive(
             IF parsed[i][1] # <<>>
             THEN [pairings |-> add_pairing(acc.pairings, cur, parsed[i][1]),
                   edge_levels |-> max_level(acc.edge_levels, cur, parsed[i][1], parsed[i][2]),
                   observed |-> acc.observed \cup {<<{cur, parsed[i][1]}, parsed[i][2]>>}]
             ELSE acc,
             cur, parsed, i + 1)

\* the loop over the (ing, level) of a pairing line, from item i on
RECURSIVE pairing_loop(_, _, _, _)
pairing_loop(acc, cur, parsed, i) ==
    IF i > Len(parsed) THEN acc
    ELSE LET ing == parsed[i][1]
             level == parsed[i][2]
         IN pairing_loop(
                IF ing # <<>> /\ ing # cur
                THEN [pairings |-> add_pairing(acc.pairings, cur, ing),
                      edge_levels |-> max_level(acc.edge_levels, cur, ing, level),
                      observed |-> acc.observed \cup {<<{cur, ing}, level>>}]
                ELSE acc,
                cur, parsed, i + 1)

Acc == [pairings |-> pairings, edge_levels |-> edge_levels, observed |-> observed]

GraphUnchanged == UNCHANGED <<memo, nodes, edges, stage, prev_nodes, prev_edges>>
PureUnchanged == UNCHANGED <<raw, normalized, observations, graphs, call>>
PagesUnchanged == UNCHANGED <<pdf, page_num, mode, page_results>>
FilesUnchanged == UNCHANGED <<fs, io>>
LoopUnchanged == UNCHANGED <<doc, lines, last, current_ingredient, in_affinities, pairings,
                             edge_levels, affinity_edges, observed>>

\* the line loop takes the next line
NextLine == /\ pc = "extract"
            /\ lines # <<>>
            /\ lines' = Tail(lines)
            /\ last' = [line |-> Head(lines), read |-> TRUE,
                        in_affinities |-> in_affinities,
                        current_ingredient |-> current_ingredient,
                        edge_levels |-> edge_levels,
                        affinity_edges |-> affinity_edges,
                        observed |-> observed]
            /\ UNCHANGED <<pc, doc>>
            /\ GraphUnchanged /\ PureUnchanged /\ PagesUnchanged /\ FilesUnchanged

IsMarker(l) == memo.facts[l].marker
IsAffinityLine(l) == /\ ~IsMarker(l)
                     /\ in_affinities /\ memo.facts[l].plus /\ ~memo.facts[l].upper
IsHeader(l) == ~IsMarker(l) /\ ~IsAffinityLine(l) /\ memo.facts[l].header
InSection(l) == /\ ~IsMarker(l) /\ ~IsAffinityLine(l) /\ ~IsHeader(l)
                /\ current_ingredient # NoneVal /\ ~in_affinities

\* if 'flavor affinit' in line_stripped.lower(): in_affinities = True
AffinityMarker ==
    /\ NextLine
    /\ IsMarker(Head(lines))
    /\ in_affinities' = TRUE
    /\ UNCHANGED <<current_ingredient, pairings, edge_levels, affinity_edges, observed>>

\* if in_affinities and '+' in line_stripped and not line_stripped.isupper()
AffinityLine ==
    /\ NextLine
    /\ IsAffinityLine(Head(lines))
    /\ LET es == memo.facts[Head(lines)].affinity
           acc == affinity_loop(Acc, es, 1)
       IN /\ affinity_edges' = affinity_edges \o es
          /\ pairings' = acc.pairings
          /\ edge_levels' = acc.edge_levels
          /\ observed' = acc.observed
    /\ UNCHANGED <<current_ingredient, in_affinities>>

\* if is_ingredient_header(line_stripped)
Header ==
    /\ NextLine
    /\ IsHeader(Head(lines))
    /\ in_affinities' = FALSE
    /\ LET norm_header == memo.facts[Head(lines)].norm_header
       IN current_ingredient' = IF norm_header \in memo.valid THEN norm_header ELSE NoneVal
    /\ UNCHANGED <<pairings, edge_levels, affinity_edges, observed>>

\* a metadata line under the current ingredient is skipped
MetadataLine ==
    /\ NextLine
    /\ InSection(Head(lines))
    /\ memo.facts[Head(lines)].metadata
    /\ UNCHANGED <<current_ingredient, in_affinities, pairings, edge_levels,
                   affinity_edges, observed>>

\* a pairing line under the current ingredient
PairingLine ==
    /\ NextLine
    /\ InSection(Head(lines))
    /\ ~memo.facts[Head(lines)].metadata
    /\ LET acc == pairing_loop(Acc, current_ingredient, memo.facts[Head(lines)].parsed, 1)
       IN /\ pairings' = acc.pairings
          /\ edge_levels' = acc.edge_levels
          /\ observed' = acc.observed
    /\ UNCHANGED <<current_ingredient, in_affinities, affinity_edges>>

\* any other line falls through the loop body
NoiseLine ==
    /\ NextLine
    /\ LET l == Head(lines)
       IN ~IsMarker(l) /\ ~IsAffinityLine(l) /\ ~IsHeader(l) /\ ~InSection(l)
    /\ UNCHANGED <<current_ingredient, in_affinities, pairings, edge_levels,
                   affinity_edges, observed>>

\* build_edges, order[i] the order in which the set of the i-th key is iterated
RECURSIVE build_edges_from(_, _, _, _, _, _)
build_edges_from(d, levels, order, i, j, seen) ==
    IF i > Len(d) THEN <<>>
    ELSE IF j > Len(order[i]) THEN build_edges_from(d, levels, order, i + 1, 1, seen)
    ELSE LET ing_a == d[i].k
             ing_b == order[i][j]
             key == {ing_a, ing_b}
             level == IF DOMAIN levels # {} /\ key \in DOMAIN levels THEN levels[key] ELSE 1
         IN IF key \in seen THEN build_edges_from(d, levels, order, i, j + 1, seen)
            ELSE <<[source |-> ing_a, target |-> ing_b, weight |-> level,
                    recommendation_level |-> level]>>
                 \o build_edges_from(d, levels, order, i, j + 1, seen \cup {key})

build_edges(d, levels, order) == build_edges_from(d, levels, order, 1, 1, {})

\* main, lines 292-296: only valid ingredients are kept
valid_pairings(d) ==
    LET kept == select_seq(d, {i \in DOMAIN d : d[i].k \in memo.valid})
    IN [i \in DOMAIN kept |-> [k |-> kept[i].k, v |-> kept[i].v \cap memo.valid]]
valid_levels(levels) ==
    [key \in {x \in DOMAIN levels : x \subseteq memo.valid} |-> levels[key]]

\* main, lines 302-307: the edges of affinity lines are flagged
mark_affinity(es, aff) ==
    LET affinity_set == {{aff[i][1], aff[i][2]} : i \in DOMAIN aff}
    IN [i \in DOMAIN es |->
          IF {es[i].source, es[i].target} \in affinity_set
          THEN [source |-> es[i].source, target |-> es[i].target, weight |-> es[i].weight,
                recommendation_level |-> es[i].recommendation_level,
                from_affinity |-> TRUE]
          ELSE es[i]]

\* main, lines 299-318: the nodes and edges of the dataset
main_graph(d, levels, aff, order) ==
    [nodes |-> [i \in DOMAIN sorted_strs(dict_keys(d)) |->
                   [id |-> sorted_strs(dict_keys(d))[i],
                    label |-> sorted_strs(dict_keys(d))[i]]],
     edges |-> mark_affinity(build_edges(d, levels, order), aff)]

\* main: the document is read, flavor_pairings.json is written
ExtractMain ==
    /\ pc = "extract"
    /\ lines = <<>>
    /\ page_num > Len(pdf.pages)
    /\ page_results = <<>>
    /\ \E order \in dict_orders(valid_pairings(pairings), 1) :
          LET written(g) == nodes' = g.nodes /\ edges' = g.edges
          IN written(main_graph(valid_pairings(pairings), valid_levels(edge_levels),
                                affinity_edges, order))
    /\ stage' = "extract"
    /\ pc' = "idle"
    /\ prev_nodes' = <<>> /\ prev_edges' = <<>>
    /\ UNCHANGED memo
    /\ LoopUnchanged /\ PureUnchanged /\ PagesUnchanged /\ FilesUnchanged

-----------------------------------------------------------------------------
(* The scripts that rewrite flavor_pairings.json: clean_flavor_data.py,      *)
(* normalize_and_merge_ingredients.py, filter_non_food_and_isolated.py.      *)

\* the edges the graphs of the model are drawn from: "pork" and the variants of
\* "apricots" in both directions, a junk id, a loop
EdgePool ==
    LET edge(a, b, w) == [source |-> a, target |-> b, weight |-> w,
                          recommendation_level |-> w]
        pork == <<"p","o","r","k">>
        apricots == <<"a","p","r","i","c","o","t","s">>
        apricots_dried == <<"a","p","r","i","c","o","t","s",","," ","d","r","i","e","d">>
        cheese_apricots == <<"c","h","e","e","s","e",","," ","a","p","r","i","c","o","t","s">>
        and_salt == <<"a","n","d"," ","s","a","l","t">>
    IN {edge(x, pork, w) : x \in {apricots, apricots_dried}, w \in {1, 3}}
       \cup {edge(pork, x, w) : x \in {apricots, apricots_dried}, w \in {1, 3}}
       \cup {edge(cheese_apricots, pork, 1), edge(pork, and_salt, 1),
             edge(and_salt, apricots, 1), edge(pork, pork, 1),
             edge(apricots, apricots_dried, 1)}

\* the ids the graphs of the model are drawn from
IdPool == {e.source : e \in EdgePool} \cup {e.target : e \in EdgePool}

\* ids together with every canonical id the merge can make of them
RECURSIVE canon_closure(_)
canon_closure(ids) ==
    LET grown(more) == IF more \subseteq ids THEN ids ELSE canon_closure(ids \cup more)
    IN grown(UNION {Range(id_to_canonicals(id)) : id \in ids})

\* the pure functions of the three scripts on the ids, computed once
id_memo(ids) ==
    [should_remove |-> [id \in ids |-> should_remove(id)],
     is_single_ingredient |-> [id \in ids |-> is_single_ingredient(id)],
     id_to_canonicals |-> [id \in ids |-> id_to_canonicals(id)],
     is_food_item |-> [id \in ids |-> is_food_item(id)]]

\* e.get(key, default) and n.get("category", "other")
get_weight(e) == IF "weight" \in DOMAIN e THEN e.weight ELSE 1
get_level(e) == IF "recommendation_level" \in DOMAIN e THEN e.recommendation_level ELSE 1
get_category(n) == IF "category" \in DOMAIN n THEN n.category ELSE "other"

node_ids(ns) == {ns[i].id : i \in DOMAIN ns}
\* [x for x in xs if ...]: the nodes with an id in ids, the edges with both ends in ids
nodes_in(ns, ids) == select_seq(ns, {i \in DOMAIN ns : ns[i].id \in ids})
edges_in(es, ids) ==
    select_seq(es, {i \in DOMAIN es : es[i].source \in ids /\ es[i].target \in ids})

\* a faulty variant: the edges of removed nodes are kept
clean_main_all_edges(g) ==
    [nodes |-> nodes_in(g.nodes, {id \in node_ids(g.nodes) : ~memo.should_remove[id]}),
     edges |-> g.edges]

\* clean_flavor_data.py, main
clean_main(g) ==
    LET keep_ids == {id \in node_ids(g.nodes) : ~memo.should_remove[id]}
    IN [nodes |-> nodes_in(g.nodes, keep_ids),
        edges |-> edges_in(g.edges, keep_ids)]

\* d[key] = val for the dict d, a list of items in insertion order
dict_put(d, key, val) ==
    IF key \in dict_keys(d)
    THEN [i \in DOMAIN d |-> IF d[i].k = key THEN [k |-> key, v |-> val] ELSE d[i]]
    ELSE Append(d, [k |-> key, v |-> val])

\* main, step 3: canon_to_node, from canonical j of node i on
RECURSIVE canon_to_node(_, _, _, _)
canon_to_node(ns, i, j, acc) ==
    IF i > Len(ns) THEN acc
    ELSE IF j > Len(memo.id_to_canonicals[ns[i].id]) THEN canon_to_node(ns, i + 1, 1, acc)
    ELSE LET add(canon) ==
                 IF canon \in node_ids(acc) THEN acc
                 ELSE Append(acc, [id |-> canon, label |-> canon,
                                   category |-> get_category(ns[i])])
         IN canon_to_node(ns, i, j + 1, add(memo.id_to_canonicals[ns[i].id][j]))

\* a faulty variant: an edge goes to the first canonical id of its end only
canons_of_first(id, keys) ==
    IF id \in keys THEN <<memo.id_to_canonicals[id][1]>> ELSE <<id>>

\* id_to_canonicals.get(id, [id]), keys the keys of id_to_canonicals
canons_of(id, keys) == IF id \in keys THEN memo.id_to_canonicals[id] ELSE <<id>>

\* a faulty variant: the weight read last replaces the weight of the pair
merge_edge_last(data, src, tgt, w, rec) ==
    dict_put(data, IF str_lt(tgt, src) THEN <<tgt, src>> ELSE <<src, tgt>>, <<w, rec>>)

\* a faulty variant: the key is (src, tgt) as read, not (min, max)
merge_edge_directed(data, src, tgt, w, rec) ==
    LET max2(x, y) == IF x >= y THEN x ELSE y
        updated(prev) == dict_put(data, <<src, tgt>>, <<max2(prev[1], w), max2(prev[2], rec)>>)
    IN updated(IF <<src, tgt>> \in dict_keys(data) THEN dict_get(data, <<src, tgt>>)
               ELSE <<0, 0>>)

\* edge_data[key] = (max(prev[0], w), max(prev[1], rec)), key = (min, max) of src and tgt
merge_edge(data, src, tgt, w, rec) ==
    LET max2(x, y) == IF x >= y THEN x ELSE y
        updated(key, prev) == dict_put(data, key, <<max2(prev[1], w), max2(prev[2], rec)>>)
        at(key) == updated(key, IF key \in dict_keys(data) THEN dict_get(data, key)
                                ELSE <<0, 0>>)
    IN at(IF str_lt(tgt, src) THEN <<tgt, src>> ELSE <<src, tgt>>)

\* main, step 4: edge_data, from the pair (a-th source canonical, b-th target canonical)
\* of edge i on
RECURSIVE edge_data(_, _, _, _, _, _, _)
edge_data(es, i, a, b, keys, canon_ids, data) ==
    IF i > Len(es) THEN data
    ELSE IF a > Len(canons_of(es[i].source, keys))
    THEN edge_data(es, i + 1, 1, 1, keys, canon_ids, data)
    ELSE IF b > Len(canons_of(es[i].target, keys))
    THEN edge_data(es, i, a + 1, 1, keys, canon_ids, data)
    ELSE LET step(src, tgt) ==
                 IF src # tgt /\ src \in canon_ids /\ tgt \in canon_ids
                 THEN merge_edge(data, src, tgt, get_weight(es[i]), get_level(es[i]))
                 ELSE data
         IN edge_data(es, i, a, b + 1, keys, canon_ids,
                      step(canons_of(es[i].source, keys)[a], canons_of(es[i].target, keys)[b]))

\* a faulty variant: the merged edge says it comes from an affinity line
merged_edge_flagged(k, v) ==
    [source |-> k[1], target |-> k[2], weight |-> v[1], recommendation_level |-> v[2],
     from_affinity |-> TRUE]

\* main, lines 317-320: an item of edge_data as an edge
merged_edge(k, v) ==
    [source |-> k[1], target |-> k[2], weight |-> v[1], recommendation_level |-> v[2]]

\* normalize_and_merge_ingredients.py, main
merge_main(g) ==
    LET edges_merged(data) == [i \in DOMAIN data |-> merged_edge(data[i].k, data[i].v)]
        merged(keep_ids, nodes_merged) ==
            [nodes |-> nodes_merged,
             edges |-> edges_merged(edge_data(edges_in(g.edges, keep_ids), 1, 1, 1, keep_ids,
                                              node_ids(nodes_merged), <<>>))]
        filtered(keep_ids) ==
            merged(keep_ids, canon_to_node(nodes_in(g.nodes, keep_ids), 1, 1, <<>>))
    IN filtered({id \in node_ids(g.nodes) : memo.is_single_ingredient[id]})

\* the ids with at least one edge
connected(es) == {es[i].source : i \in DOMAIN es} \cup {es[i].target : i \in DOMAIN es}

\* a faulty variant: the nodes are not checked again after the non-food edges are dropped
filter_main_no_recheck(g) ==
    LET food_ids == {id \in node_ids(nodes_in(g.nodes, connected(g.edges))) :
                        memo.is_food_item[id]}
    IN [nodes |-> nodes_in(g.nodes, food_ids), edges |-> edges_in(g.edges, food_ids)]

\* filter_non_food_and_isolated.py, main
filter_main(g) ==
    LET final(nodes_food, edges_food) ==
            [nodes |-> nodes_in(nodes_food, connected(edges_food)),   \* the re-check
             edges |-> edges_food]
        food(nodes_with_edges, food_ids) ==
            final(nodes_in(nodes_with_edges, food_ids), edges_in(g.edges, food_ids))
        connected_only(nodes_with_edges) ==
            food(nodes_with_edges,
                 {id \in node_ids(nodes_with_edges) : memo.is_food_item[id]})
    IN connected_only(nodes_in(g.nodes, connected(g.edges)))

\* no extraction is running
LoopIdle == /\ doc = <<>> /\ lines = <<>> /\ last = NoLine
            /\ current_ingredient = NoneVal /\ in_affinities = FALSE
            /\ pairings = <<>> /\ edge_levels = <<>> /\ affinity_edges = <<>>
            /\ observed = {}

\* the extraction has ended: its variables are gone
LoopEnded == /\ doc' = <<>> /\ lines' = <<>> /\ last' = NoLine
             /\ current_ingredient' = NoneVal /\ in_affinities' = FALSE
             /\ pairings' = <<>> /\ edge_levels' = <<>> /\ affinity_edges' = <<>>
             /\ observed' = {}

\* flavor_pairings.json as the scripts load it
data == [nodes |-> nodes, edges |-> edges]

\* a script has read flavor_pairings.json and writes g in its place
Rewrite(g, script) ==
    /\ nodes' = g.nodes /\ edges' = g.edges
    /\ prev_nodes' = nodes /\ prev_edges' = edges
    /\ stage' = script
    /\ LoopEnded
    /\ UNCHANGED <<memo, pc>>
    /\ PureUnchanged /\ PagesUnchanged /\ FilesUnchanged

\* each script runs when flavor_pairings.json exists
Clean == pc = "idle" /\ Rewrite(clean_main(data), "clean")
Merge == pc = "idle" /\ Rewrite(merge_main(data), "merge")
Filter == pc = "idle" /\ Rewrite(filter_main(data), "filter")

-----------------------------------------------------------------------------
(* The Graph Builder as a fold over observations: the line loop's updates    *)
(* (lines 219-222 and 249-254) followed by main's build of the graph.        *)

\* a pairing observation is (section ingredient a, ingredient b, level); an affinity
\* observation is the pair (a, b)
ObservationPool ==
    {[kind |-> "pairing", a |-> <<"g","a","r","l","i","c">>, b |-> <<"o","n","i","o","n">>, level |-> l] : l \in 1..4}
    \cup {[kind |-> "pairing", a |-> <<"o","n","i","o","n">>, b |-> <<"g","a","r","l","i","c">>, level |-> l] : l \in {1, 3}}
    \cup {[kind |-> "pairing", a |-> <<"g","a","r","l","i","c">>, b |-> <<"b","a","s","i","l">>, level |-> 1],
          [kind |-> "affinity", a |-> <<"g","a","r","l","i","c">>, b |-> <<"o","n","i","o","n">>, level |-> 2],
          [kind |-> "affinity", a |-> <<"o","n","i","o","n">>, b |-> <<"b","a","s","i","l">>, level |-> 2]}

\* the number of observations of a fold
MaxObservations == 3

\* the line loop's update for one observation
observe(st, o) ==
    IF o.kind = "affinity"
    THEN [acc |-> affinity_loop(st.acc, <<<<o.a, o.b>>>>, 1),
          affinity_edges |-> st.affinity_edges \o <<<<o.a, o.b>>>>]
    ELSE [acc |-> pairing_loop(st.acc, o.a, <<<<o.b, o.level>>>>, 1),
          affinity_edges |-> st.affinity_edges]

RECURSIVE fold(_, _, _)
fold(st, os, i) == IF i > Len(os) THEN st ELSE fold(observe(st, os[i]), os, i + 1)

\* the loop state after the observations os, from the empty state
folded(os) ==
    fold([acc |-> [pairings |-> <<>>, edge_levels |-> <<>>, observed |-> {}],
          affinity_edges |-> <<>>], os, 1)

\* the graphs main can write for the loop state st (one for each iteration order)
graphs_of(st) ==
    {main_graph(valid_pairings(st.acc.pairings), valid_levels(st.acc.edge_levels),
                st.affinity_edges, order) :
        order \in dict_orders(valid_pairings(st.acc.pairings), 1)}

\* the reorderings of the list os
reorderings(os) ==
    {[i \in DOMAIN os |-> os[perm[i]]] : perm \in iter_orders(DOMAIN os)}

\* the same observations are folded in two orders
Fold ==
    /\ pc = "fold"
    /\ \E second \in reorderings(observations) :
          \E g1 \in graphs_of(folded(observations)), g2 \in graphs_of(folded(second)) :
             graphs' = [first |-> g1, second |-> g2, reordered |-> second]
    /\ pc' = "folded"
    /\ UNCHANGED <<raw, normalized, observations, call>>
    /\ GraphUnchanged /\ LoopUnchanged /\ PagesUnchanged /\ FilesUnchanged

-----------------------------------------------------------------------------
(* normalize_ingredient applied to a raw string, and to its own result.      *)

\* the pieces the raw strings of the model are made of
RawPieces == {<<"a">>, <<"b">>, <<" ">>, <<"*">>, <<"(">>, <<")">>, <<"[">>, <<"]">>,
              <<" ", "-", " ">>, <<"EMDASH">>, <<"e", ".", "g", ".">>,
              <<"e", "s", "p", ".">>}

\* the number of pieces of a raw string
MaxPieces == 3

Normalize ==
    /\ pc = "normalize"
    /\ normalized' = normalize_ingredient(raw)
    /\ pc' = "normalized"
    /\ UNCHANGED <<raw, observations, graphs, call>>
    /\ GraphUnchanged /\ LoopUnchanged /\ PagesUnchanged /\ FilesUnchanged

\* the result is normalized again
NormalizeAgain ==
    /\ pc = "normalized"
    /\ raw' = normalized
    /\ normalized' = normalize_ingredient(normalized)
    /\ pc' = "normalized twice"
    /\ UNCHANGED <<observations, graphs, call>>
    /\ GraphUnchanged /\ LoopUnchanged /\ PagesUnchanged /\ FilesUnchanged

-----------------------------------------------------------------------------
(* extract_from_pdf over the pages of the PDF (lines 190-203), and the       *)
(* extraction of the pages one at a time, combined by a union that keeps    *)
(* the greater level.                                                        *)

\* the lines the pages of the model are made of
PageLines == {
    [text |-> <<"G","A","R","L","I","C">>, bold |-> FALSE],
    [text |-> <<"o","n","i","o","n",","," ","o","l","i","v","e"," ","o","i","l",","," ","*","b","a","s","i","l">>, bold |-> FALSE],
    [text |-> <<"O","N","I","O","N",","," ","g","a","r","l","i","c">>, bold |-> FALSE],
    [text |-> <<"F","l","a","v","o","r"," ","A","f","f","i","n","i","t","i","e","s">>, bold |-> FALSE],
    [text |-> <<"g","a","r","l","i","c"," ","+"," ","o","n","i","o","n"," ","+"," ","g","a","r","l","i","c">>, bold |-> FALSE],
    [text |-> <<"S","E","A","S","O","N",":"," ","F","A","L","L">>, bold |-> FALSE]}

\* the number of lines of a page, and of chart pages of a PDF
MaxPageLines == 2
MaxPages == 2

\* a chart page: the lines its words are grouped in (none if extract_words returns no
\* word), or raises if page.extract_words raises
PagePool == {[lines |-> ls, raises |-> FALSE] : ls \in seqs_upto(PageLines, MaxPageLines)}
            \cup {[lines |-> <<>>, raises |-> TRUE]}

\* the page loop is about to take a page
CanReadPage == pc = "extract" /\ lines = <<>> /\ page_num <= Len(pdf.pages)

\* words = page.extract_words(...) raises: the exception leaves extract_from_pdf and
\* main, nothing is written
PageRaises ==
    /\ CanReadPage
    /\ pdf.pages[page_num].raises
    /\ pc' = "failed"
    /\ UNCHANGED <<pdf, page_num, mode, page_results>>
    /\ GraphUnchanged /\ PureUnchanged /\ LoopUnchanged /\ FilesUnchanged

\* the page loop takes the next page; a page without words is passed over
NextPage ==
    /\ CanReadPage
    /\ ~pdf.pages[page_num].raises
    /\ mode = "sequential"
    /\ page_num' = page_num + 1
    /\ lines' = pdf.pages[page_num].lines
    /\ doc' = doc \o pdf.pages[page_num].lines
    /\ UNCHANGED <<pc, last, current_ingredient, in_affinities, pairings, edge_levels,
                   affinity_edges, observed, pdf, mode, page_results>>
    /\ GraphUnchanged /\ PureUnchanged /\ FilesUnchanged

\* what extract_from_pdf returns
PageResult == [pairings |-> pairings, edge_levels |-> edge_levels,
               affinity_edges |-> affinity_edges]

\* a page is extracted on its own: from empty results and from the state
\* extract_from_pdf starts in (lines 184-188)
PageAlone ==
    /\ CanReadPage
    /\ ~pdf.pages[page_num].raises
    /\ mode = "fresh pages"
    /\ page_num' = page_num + 1
    /\ lines' = pdf.pages[page_num].lines
    /\ doc' = doc \o pdf.pages[page_num].lines
    /\ page_results' = Append(page_results, PageResult)
    /\ pairings' = <<>> /\ edge_levels' = <<>> /\ affinity_edges' = <<>>
    /\ current_ingredient' = NoneVal /\ in_affinities' = FALSE
    /\ UNCHANGED <<pc, last, observed, pdf, mode>>
    /\ GraphUnchanged /\ PureUnchanged /\ FilesUnchanged

\* a page is extracted from empty results, in the state the page before it left
PageCarried ==
    /\ CanReadPage
    /\ ~pdf.pages[page_num].raises
    /\ mode = "carried pages"
    /\ page_num' = page_num + 1
    /\ lines' = pdf.pages[page_num].lines
    /\ doc' = doc \o pdf.pages[page_num].lines
    /\ page_results' = Append(page_results, PageResult)
    /\ pairings' = <<>> /\ edge_levels' = <<>> /\ affinity_edges' = <<>>
    /\ UNCHANGED <<pc, last, current_ingredient, in_affinities, observed, pdf, mode>>
    /\ GraphUnchanged /\ PureUnchanged /\ FilesUnchanged

\* a faulty variant: the level of the later page replaces the level of the pair
union_last(a, b) ==
    [x \in DOMAIN a \cup DOMAIN b |-> IF x \in DOMAIN b THEN b[x] ELSE a[x]]

\* the union of two edge_levels that keeps the greater level of a pair
union_max(a, b) ==
    [x \in DOMAIN a \cup DOMAIN b |->
        IF x \notin DOMAIN b THEN a[x]
        ELSE IF x \notin DOMAIN a THEN b[x]
        ELSE IF a[x] >= b[x] THEN a[x] ELSE b[x]]

\* the union of two pairings, from item i of e on
RECURSIVE union_pairings(_, _, _)
union_pairings(d, e, i) ==
    IF i > Len(e) THEN d
    ELSE union_pairings(
             IF e[i].k \in dict_keys(d)
             THEN [j \in DOMAIN d |-> IF d[j].k = e[i].k
                                      THEN [k |-> d[j].k, v |-> d[j].v \cup e[i].v]
                                      ELSE d[j]]
             ELSE Append(d, e[i]),
             e, i + 1)

\* the union of the results rs, from result i on
RECURSIVE combine(_, _, _)
combine(acc, rs, i) ==
    IF i > Len(rs) THEN acc
    ELSE combine([pairings |-> union_pairings(acc.pairings, rs[i].pairings, 1),
                  edge_levels |-> union_max(acc.edge_levels, rs[i].edge_levels),
                  affinity_edges |-> acc.affinity_edges \o rs[i].affinity_edges],
                 rs, i + 1)

\* the results of the pages are combined into the result main builds the graph from
CombinePages ==
    /\ pc = "extract" /\ lines = <<>> /\ page_num > Len(pdf.pages)
    /\ page_results # <<>>
    /\ LET all == combine([pairings |-> <<>>, edge_levels |-> <<>>, affinity_edges |-> <<>>],
                          Append(page_results, PageResult), 1)
       IN /\ pairings' = all.pairings
          /\ edge_levels' = all.edge_levels
          /\ affinity_edges' = all.affinity_edges
    /\ page_results' = <<>>
    /\ UNCHANGED <<pc, doc, lines, last, current_ingredient, in_affinities, observed,
                   pdf, page_num, mode>>
    /\ GraphUnchanged /\ PureUnchanged /\ FilesUnchanged

\* the graph of the sequential extraction is kept, and the same PDF is extracted
\* again one page at a time
ExtractAgain ==
    /\ pc = "idle" /\ stage = "extract" /\ mode = "sequential"
    /\ graphs' = [sequential |-> data]
    /\ mode' \in {"fresh pages", "carried pages"}
    /\ page_num' = 1
    /\ pc' = "extract"
    /\ LoopEnded
    /\ nodes' = <<>> /\ edges' = <<>> /\ stage' = "none"
    /\ UNCHANGED <<memo, raw, normalized, observations, call, prev_nodes, prev_edges,
                   pdf, page_results>>
    /\ FilesUnchanged

-----------------------------------------------------------------------------
(* The scripts as runs on the files: main checks its input, computes the     *)
(* graph, then writes flavor_pairings.json and flavor_pairings.csv one after *)
(* the other, each with open(path, "w").                                     *)

Scripts == {"extract", "clean", "merge", "filter"}

\* the number of scripts run one after the other
MaxRuns == 2

\* str(w) of a weight
RECURSIVE str_int(_)
str_int(n) == IF n < 10 THEN <<DigitSeq[n + 1]>>
              ELSE str_int(n \div 10) \o <<DigitSeq[(n % 10) + 1]>>

\* f.write("source,target,weight\n")
csv_header == <<"s","o","u","r","c","e",",","t","a","r","g","e","t",",",
                "w","e","i","g","h","t">>

\* f.write(f'{e["source"]},{e["target"]},{w}\n'); w is e["weight"] in the extraction
\* and the merge, e.get("weight", 1) in the other two
csv_line(script, e) ==
    e.source \o <<",">> \o e.target \o <<",">>
    \o str_int(IF script \in {"clean", "filter"} THEN get_weight(e) ELSE e.weight)

\* the two files: the state of each, the graph in the JSON, the lines of the CSV
files == [json |-> fs.json, nodes |-> nodes, edges |-> edges,
          csv |-> fs.csv, rows |-> fs.rows]

\* the file main reads is there
input_exists(script) == IF script = "extract" THEN pdf.exists ELSE fs.json # "missing"

\* a faulty variant: main does not look for its input
input_unchecked(script) == FALSE

\* if not pdf_path.exists(): / if not json_path.exists():
input_missing(script) == ~input_exists(script)

\* main of the three scripts that rewrite the graph, up to the writes
script_main(script, g) ==
    CASE script = "clean" -> clean_main(g)
      [] script = "merge" -> merge_main(g)
      [] script = "filter" -> filter_main(g)

\* a faulty variant: the CSV is written from the edges that were read
csv_edges_read(run) == run.before.edges

\* for e in edges: / edges_merged / edges_clean / edges_food, the list put in the JSON
csv_edges(run) == run.edges

\* main has ended with this result
returned(script, result, found) ==
    [script |-> script, at |-> "returned", result |-> result, found |-> found,
     run |-> io.run + 1, nodes |-> <<>>, edges |-> <<>>, before |-> files]

\* main is at its writes, with the graph g to write
writing(script, g) ==
    [script |-> script, at |-> "open json", result |-> "none", found |-> TRUE,
     run |-> io.run + 1, nodes |-> g.nodes, edges |-> g.edges, before |-> files]

CanRun == pc = "idle" /\ io.at \in {"none", "returned"} /\ io.run < MaxRuns

FilesKept == UNCHANGED <<fs, nodes, edges, stage, prev_nodes, prev_edges>>

\* main returns 1 when its input is missing; without the check open() raises
RunWithoutInput ==
    /\ CanRun
    /\ \E script \in Scripts :
          /\ input_missing(script) \/ ~input_exists(script)
          /\ io' = returned(script,
                            IF input_missing(script) THEN "return 1"
                            ELSE "FileNotFoundError",
                            input_exists(script))
    /\ FilesKept
    /\ UNCHANGED <<memo, pc>>
    /\ LoopUnchanged /\ PureUnchanged /\ PagesUnchanged

\* extract_flavor_pairings.py, main: the PDF is there, extract_from_pdf starts
ExtractStarts ==
    /\ CanRun
    /\ ~input_missing("extract") /\ input_exists("extract")
    /\ \E text \in seqs_upto(PageLines, MaxPageLines) : doc' = text /\ lines' = text
    /\ pc' = "extract"
    /\ io' = [script |-> "extract", at |-> "extract_from_pdf", result |-> "none",
              found |-> TRUE, run |-> io.run + 1, nodes |-> <<>>, edges |-> <<>>,
              before |-> files]
    /\ FilesKept
    /\ UNCHANGED <<memo, last, current_ingredient, in_affinities, pairings, edge_levels,
                   affinity_edges, observed>>
    /\ PureUnchanged /\ PagesUnchanged

\* extract_flavor_pairings.py, main: extract_from_pdf has returned, the dataset is built
ExtractComputed ==
    /\ pc = "extract" /\ lines = <<>>
    /\ io.at = "extract_from_pdf"
    /\ \E order \in dict_orders(valid_pairings(pairings), 1) :
          LET built(g) == io' = [io EXCEPT !.at = "open json",
                                           !.nodes = g.nodes, !.edges = g.edges]
          IN built(main_graph(valid_pairings(pairings), valid_levels(edge_levels),
                              affinity_edges, order))
    /\ pc' = "idle"
    /\ LoopEnded
    /\ FilesKept
    /\ UNCHANGED memo
    /\ PureUnchanged /\ PagesUnchanged

\* a script that rewrites the graph: json.load, then the new graph is computed;
\* json.load raises on a file a failed write has left
RewriteStarts ==
    /\ CanRun
    /\ \E script \in Scripts \ {"extract"} :
          /\ ~input_missing(script) /\ input_exists(script)
          /\ io' = IF fs.json = "partial"
                   THEN returned(script, "JSONDecodeError", TRUE)
                   ELSE writing(script, script_main(script, data))
    /\ FilesKept
    /\ UNCHANGED <<memo, pc>>
    /\ LoopUnchanged /\ PureUnchanged /\ PagesUnchanged

RunOnly == /\ UNCHANGED <<memo, pc>>
           /\ LoopUnchanged /\ PureUnchanged /\ PagesUnchanged

\* with open(json_path, "w") as f: the file is created or truncated
OpenJson ==
    /\ io.at = "open json"
    /\ fs' = [fs EXCEPT !.json = "partial"]
    /\ nodes' = <<>> /\ edges' = <<>>
    /\ io' = [io EXCEPT !.at = "json.dump"]
    /\ UNCHANGED <<stage, prev_nodes, prev_edges>>
    /\ RunOnly

\* json.dump(data, f, indent=2), and the file is closed
DumpJson ==
    /\ io.at = "json.dump"
    /\ fs' = [fs EXCEPT !.json = "complete"]
    /\ nodes' = io.nodes /\ edges' = io.edges
    /\ stage' = io.script
    /\ prev_nodes' = io.before.nodes /\ prev_edges' = io.before.edges
    /\ io' = [io EXCEPT !.at = "open csv"]
    /\ RunOnly

\* with open(csv_path, "w") as f: the file is created or truncated
OpenCsv ==
    /\ io.at = "open csv"
    /\ fs' = [fs EXCEPT !.csv = "partial", !.rows = <<>>]
    /\ io' = [io EXCEPT !.at = "write csv"]
    /\ UNCHANGED <<nodes, edges, stage, prev_nodes, prev_edges>>
    /\ RunOnly

\* f.write: the header, then the line of each edge in turn
WriteCsv ==
    /\ io.at = "write csv"
    /\ Len(fs.rows) <= Len(csv_edges(io))
    /\ fs' = [fs EXCEPT !.rows =
                Append(fs.rows,
                       IF fs.rows = <<>> THEN csv_header
                       ELSE csv_line(io.script, csv_edges(io)[Len(fs.rows)]))]
    /\ UNCHANGED <<io, nodes, edges, stage, prev_nodes, prev_edges>>
    /\ RunOnly

\* the CSV is closed, main returns 0
Return0 ==
    /\ io.at = "write csv"
    /\ Len(fs.rows) > Len(csv_edges(io))
    /\ fs' = [fs EXCEPT !.csv = "complete"]
    /\ io' = [io EXCEPT !.at = "returned", !.result = "return 0"]
    /\ UNCHANGED <<nodes, edges, stage, prev_nodes, prev_edges>>
    /\ RunOnly

\* open, json.dump or f.write raises OSError (disk full, permissions): no handler,
\* the files stay as the writes so far have left them
WriteFails ==
    /\ io.at \in {"open json", "json.dump", "open csv", "write csv"}
    /\ io' = [io EXCEPT !.at = "returned", !.result = "OSError"]
    /\ FilesKept
    /\ RunOnly

-----------------------------------------------------------------------------
(* normalize_and_merge_ingredients.py on graphs with comma ids that expand   *)
(* to several canonical ids and with nodes that carry a category, and on the *)
(* same graph with its nodes and edges in another order.                     *)

\* the nodes the graphs are drawn from; "apricots" and "dark chocolate" carry a
\* category, the ids that collapse with them carry none
MergeNodes ==
    LET node(id) == [id |-> id, label |-> id]
        tagged(id, category) == [id |-> id, label |-> id, category |-> category]
    IN {node(<<"p","o","r","k">>), node(<<"a","n","d"," ","s","a","l","t">>), node(<<"a","p","r","i","c","o","t","s",","," ","d","r","i","e","d">>), node(<<"c","h","o","c","o","l","a","t","e",","," ","d","a","r","k",","," ","m","i","l","k">>),
        tagged(<<"a","p","r","i","c","o","t","s">>, "fruit"), tagged(<<"d","a","r","k"," ","c","h","o","c","o","l","a","t","e">>, "sweet")}

\* the edges the graphs are drawn from
MergeEdges ==
    LET edge(a, b, w) == [source |-> a, target |-> b, weight |-> w,
                          recommendation_level |-> w]
    IN {edge(<<"c","h","o","c","o","l","a","t","e",","," ","d","a","r","k",","," ","m","i","l","k">>, <<"p","o","r","k">>, 1), edge(<<"p","o","r","k">>, <<"d","a","r","k"," ","c","h","o","c","o","l","a","t","e">>, 3), edge(<<"a","p","r","i","c","o","t","s">>, <<"p","o","r","k">>, 1), edge(<<"p","o","r","k">>, <<"a","p","r","i","c","o","t","s",","," ","d","r","i","e","d">>, 3),
        edge(<<"a","p","r","i","c","o","t","s">>, <<"a","p","r","i","c","o","t","s",","," ","d","r","i","e","d">>, 1), edge(<<"a","n","d"," ","s","a","l","t">>, <<"p","o","r","k">>, 1)}

MergeIds == {n.id : n \in MergeNodes}
           \cup {e.source : e \in MergeEdges} \cup {e.target : e \in MergeEdges}

\* the number of nodes of such a graph
MaxMergeNodes == 3

\* the lists of at most n distinct elements of S
lists_upto(S, n) == {l \in seqs_upto(S, n) : Cardinality(Range(l)) = Len(l)}

\* the list l in the order perm
reordered(l, perm) == [i \in DOMAIN l |-> l[perm[i]]]

\* the merge runs on the graph no script has rewritten yet
MergeFirst == stage = "none" /\ Merge

\* the merge runs again on the graph it read, its nodes and its edges in another order
MergeReordered ==
    /\ pc = "idle" /\ stage = "merge"
    /\ \E np \in iter_orders(DOMAIN prev_nodes), ep \in iter_orders(DOMAIN prev_edges) :
          graphs' = [read |-> [nodes |-> reordered(prev_nodes, np),
                               edges |-> reordered(prev_edges, ep)],
                     written |-> merge_main([nodes |-> reordered(prev_nodes, np),
                                             edges |-> reordered(prev_edges, ep)])]
    /\ pc' = "reordered"
    /\ UNCHANGED <<raw, normalized, observations, call>>
    /\ GraphUnchanged /\ LoopUnchanged /\ PagesUnchanged /\ FilesUnchanged

-----------------------------------------------------------------------------
(* The functions called on their own, each on arguments put together from    *)
(* pieces.                                                                   *)

\* the pieces of a pairing line: what leads it, its first word, what follows
LineLeads == {<<>>, <<"*">>, <<" ", "*">>}
LineWords == {<<"B","A","S","I","L">>, <<"b","a","s","i","l">>, <<"B","a","s","i","l">>, <<"B">>}
LineRests == {<<>>, <<","," ","o","n","i","o","n">>, <<" ","O","I","L",","," ","o","n","i","o","n">>,
              <<","," ","*","O","N","I","O","N">>}

\* parse_pairing_line is about to be called on a line and its styling
ParseArgs ==
    {[fn |-> "parse_pairing_line", done |-> FALSE,
      lead |-> l, word |-> w, rest |-> r, line |-> l \o w \o r, is_bold |-> b] :
        l \in LineLeads, w \in LineWords, r \in LineRests, b \in BOOLEAN}

\* the call returns
returns(result) == call' = [done |-> TRUE, result |-> result] @@ call

CallOnly == /\ UNCHANGED <<memo, pc, raw, normalized, observations, graphs>>
            /\ GraphUnchanged /\ LoopUnchanged /\ PagesUnchanged /\ FilesUnchanged

ParsePairingLine ==
    /\ call.fn = "parse_pairing_line" /\ ~call.done
    /\ returns(parse_pairing_line(call.line, call.is_bold))
    /\ CallOnly

\* the qualifiers, and the comma-free ids they are put on
Qualifiers == {<<"d","r","i","e","d">>, <<"f","r","e","s","h">>, <<"c","a","n","n","e","d">>, <<"g","r","o","u","n","d">>, <<"w","h","o","l","e">>, <<"m","i","n","c","e","d">>}
QualifiedIds == {<<"b","a","s","i","l">>, <<"c","u","m","i","n">>, <<"c","l","o","v","e","s">>, <<"a","p","r","i","c","o","t","s">>, <<"p","e","p","p","e","r">>, <<"o","i","l">>}

\* single-word subtypes no rule of normalize_to_canonical names
Subtypes == {<<"s","o","u","r">>, <<"p","l","u","m">>, <<"w","i","l","d">>}

\* normalize_to_canonical is about to be called on "x, q" or "q x", q a qualifier, or
\* on "p, q", p a plural of singular_map and q a subtype; base is what is called
\* without q
CanonArgs ==
    {[fn |-> "normalize_to_canonical", done |-> FALSE, kind |-> "suffix",
      base |-> x, q |-> q, name |-> x \o <<",", " ">> \o q] :
        x \in QualifiedIds, q \in Qualifiers}
    \cup {[fn |-> "normalize_to_canonical", done |-> FALSE, kind |-> "prefix",
           base |-> x, q |-> q, name |-> q \o <<" ">> \o x] :
        x \in QualifiedIds, q \in Qualifiers}
    \cup {[fn |-> "normalize_to_canonical", done |-> FALSE, kind |-> "plural",
           base |-> p[1], q |-> q, name |-> p[1] \o <<",", " ">> \o q] :
        p \in singular_map, q \in Subtypes}

NormalizeToCanonical ==
    /\ call.fn = "normalize_to_canonical" /\ ~call.done
    /\ returns([of_name |-> normalize_to_canonical(call.name),
                of_base |-> normalize_to_canonical(call.base)])
    /\ CallOnly

\* strings with a joining word between two words, and without
JoinedNames ==
    {l \o j \o r : l \in {<<"s","a","l","t">>, <<"b","l","a","c","k">>, <<"m","e","a","t","s">>},
                   j \in {<<" ","a","n","d"," ">>, <<" ","o","r"," ">>, <<" ","t","h","e"," ">>, <<" ">>},
                   r \in {<<"p","e","p","p","e","r">>, <<"k","i","d","n","e","y">>, <<"f","i","s","h">>}}

\* is_valid_ingredient is about to be called on a normalized string
ValidArgs ==
    {[fn |-> "is_valid_ingredient", done |-> FALSE, name |-> name] :
        name \in {n \in JoinedNames : normalize_ingredient(n) = n}}

IsValidIngredient ==
    /\ call.fn = "is_valid_ingredient" /\ ~call.done
    /\ returns(is_valid_ingredient(call.name))
    /\ CallOnly

-----------------------------------------------------------------------------
(* fetch_food_images.py: _wiki_request, the request with retries.            *)

MAX_RETRIES == 3

\* how session.get and what follows it can go: status 200 with a JSON body, status
\* 429, another error status (raise_for_status raises), session.get raises, status
\* 200 with a body r.json() cannot decode
Responses == {"200", "429", "500", "timeout", "not json"}

\* a faulty variant: raise_for_status is not called
decoded_any_status(response) == response \in {"200", "500"}

\* r.raise_for_status(); return r.json() goes through
decoded(response) == response = "200"

\* _wiki_request is called: the loop is at attempt 0, no request was made
WikiArgs == [fn |-> "_wiki_request", done |-> FALSE, at |-> "get", attempt |-> 0,
             responses |-> <<>>]

\* r = session.get(...): the response is decoded and returned, or the attempt fails
\* and either another one follows after a sleep or None is returned
WikiGet ==
    /\ call.fn = "_wiki_request" /\ call.at = "get" /\ call.attempt < MAX_RETRIES
    /\ \E response \in Responses :
          call' = IF decoded(response)
                  THEN [call EXCEPT !.responses = Append(@, response),
                                    !.at = "returned", !.done = TRUE]
                       @@ [result |-> "r.json()"]
                  ELSE IF call.attempt < MAX_RETRIES - 1
                  THEN [call EXCEPT !.responses = Append(@, response), !.at = "sleep"]
                  ELSE [call EXCEPT !.responses = Append(@, response),
                                    !.at = "returned", !.done = TRUE]
                       @@ [result |-> NoneVal]
    /\ CallOnly

\* time.sleep(RETRY_DELAY); continue
WikiSleep ==
    /\ call.fn = "_wiki_request" /\ call.at = "sleep"
    /\ call' = [call EXCEPT !.attempt = @ + 1, !.at = "get"]
    /\ CallOnly

-----------------------------------------------------------------------------
(* The specifications.                                                       *)

\* the number of edges of a graph the scripts are started on
MaxEdges == 2

\* the node lists the scripts are started on: any ids of IdPool (an edge of EdgePool
\* may then name an id that is no node)
NodeLists == {[i \in DOMAIN sorted_strs(ids) |->
                  [id |-> sorted_strs(ids)[i], label |-> sorted_strs(ids)[i]]] :
                 ids \in SUBSET IdPool}

\* the pure functions on the lines of LinePool and on every id a graph can hold
pipeline_memo ==
    LET with(m) == m @@ id_memo(canon_closure(IdPool \cup m.valid))
    IN with(extract_memo(LinePool))

\* no page is left to read, nothing is extracted page by page
NoPages == /\ pdf = [exists |-> TRUE, pages |-> <<>>]
           /\ page_num = 1
           /\ mode = "sequential"
           /\ page_results = <<>>
\* no script has run
NoRun == [script |-> "none", at |-> "none", result |-> "none", found |-> TRUE, run |-> 0,
          nodes |-> <<>>, edges |-> <<>>,
          before |-> [json |-> "missing", nodes |-> <<>>, edges |-> <<>>,
                      csv |-> "missing", rows |-> <<>>]]
\* the files are not looked at
NoFiles == fs = [json |-> "complete", csv |-> "missing", rows |-> <<>>] /\ io = NoRun

\* no function is called on its own
NoCall == [fn |-> "none", done |-> FALSE]
PureIdle == /\ raw = <<>> /\ normalized = NoneVal /\ observations = <<>> /\ graphs = <<>>
            /\ call = NoCall
NoGraph == /\ nodes = <<>> /\ edges = <<>> /\ stage = "none"
           /\ prev_nodes = <<>> /\ prev_edges = <<>>

\* extract_flavor_pairings.py is started on a document
InitExtract ==
    /\ pc = "extract"
    /\ doc \in seqs_upto(LinePool, MaxLines)
    /\ lines = doc
    /\ last = NoLine
    /\ current_ingredient = NoneVal
    /\ in_affinities = FALSE
    /\ pairings = <<>>
    /\ edge_levels = <<>>
    /\ affinity_edges = <<>>
    /\ observed = {}
    /\ NoGraph

\* flavor_pairings.json holds some graph
InitGraph ==
    /\ pc = "idle"
    /\ nodes \in NodeLists
    /\ edges \in seqs_upto(EdgePool, MaxEdges)
    /\ stage = "none"
    /\ prev_nodes = <<>> /\ prev_edges = <<>>
    /\ LoopIdle

Init == /\ memo = pipeline_memo
        /\ PureIdle
        /\ NoPages /\ NoFiles
        /\ \/ InitExtract
           \/ InitGraph

Next == \/ AffinityMarker
        \/ AffinityLine
        \/ Header
        \/ MetadataLine
        \/ PairingLine
        \/ NoiseLine
        \/ ExtractMain
        \/ Clean
        \/ Merge
        \/ Filter

Spec == Init /\ [][Next]_vars

\* extract_from_pdf on a PDF of at most MaxPages chart pages
InitPages ==
    /\ memo = extract_memo(LinePool)
    /\ pc = "extract"
    /\ pdf \in {[exists |-> TRUE, pages |-> ps] : ps \in seqs_upto(PagePool, MaxPages)}
    /\ page_num = 1
    /\ mode = "sequential"
    /\ page_results = <<>>
    /\ PureIdle /\ LoopIdle /\ NoGraph /\ NoFiles

NextPages == \/ PageRaises
             \/ NextPage
             \/ PageAlone
             \/ PageCarried
             \/ AffinityMarker
             \/ AffinityLine
             \/ Header
             \/ MetadataLine
             \/ PairingLine
             \/ NoiseLine
             \/ CombinePages
             \/ ExtractMain
             \/ ExtractAgain

SpecPages == InitPages /\ [][NextPages]_vars

\* the fold of a list of observations and of a reordering of it
InitFold ==
    /\ memo = [valid |-> {id \in UNION {{o.a, o.b} : o \in ObservationPool} :
                              is_valid_ingredient(id)}]
    /\ pc = "fold"
    /\ observations \in seqs_upto(ObservationPool, MaxObservations)
    /\ graphs = <<>>
    /\ raw = <<>> /\ normalized = NoneVal /\ call = NoCall
    /\ LoopIdle /\ NoGraph
    /\ NoPages /\ NoFiles

NextFold == Fold

SpecFold == InitFold /\ [][NextFold]_vars

\* normalize_ingredient on the raw strings of at most MaxPieces pieces
InitNorm ==
    /\ memo = <<>>
    /\ pc = "normalize"
    /\ raw \in {join(ps, <<>>) : ps \in seqs_upto(RawPieces, MaxPieces)}
    /\ normalized = NoneVal
    /\ observations = <<>> /\ graphs = <<>> /\ call = NoCall
    /\ LoopIdle /\ NoGraph
    /\ NoPages /\ NoFiles

NextNorm == Normalize \/ NormalizeAgain

SpecNorm == InitNorm /\ [][NextNorm]_vars

\* the edges of the graph flavor_pairings.json holds when the first script runs: "pork"
\* with a comma id, a junk id, itself
FileEdges == {e \in EdgePool : e.weight = 1 /\ e.source = <<"p","o","r","k">>}

\* the scripts run on the files: the PDF is there or not, flavor_pairings.json is missing
\* or holds a graph, flavor_pairings.csv is missing or holds the lines of its edges
InitFiles ==
    /\ memo = pipeline_memo
    /\ PureIdle
    /\ pc = "idle"
    /\ LoopIdle
    /\ pdf \in {[exists |-> b, pages |-> <<>>] : b \in BOOLEAN}
    /\ page_num = 1 /\ mode = "sequential" /\ page_results = <<>>
    /\ stage = "none" /\ prev_nodes = <<>> /\ prev_edges = <<>>
    /\ io = NoRun
    /\ \/ /\ nodes = <<>> /\ edges = <<>>
          /\ fs = [json |-> "missing", csv |-> "missing", rows |-> <<>>]
       \/ /\ edges \in seqs_upto(FileEdges, MaxEdges)
          /\ nodes = [i \in DOMAIN sorted_strs(connected(edges)) |->
                        [id |-> sorted_strs(connected(edges))[i],
                         label |-> sorted_strs(connected(edges))[i]]]
          /\ fs = [json |-> "complete", csv |-> "complete",
                   rows |-> <<csv_header>> \o [i \in DOMAIN edges |-> csv_line("extract", edges[i])]]

NextFiles == \/ RunWithoutInput
             \/ ExtractStarts
             \/ AffinityMarker
             \/ AffinityLine
             \/ Header
             \/ MetadataLine
             \/ PairingLine
             \/ NoiseLine
             \/ ExtractComputed
             \/ RewriteStarts
             \/ OpenJson
             \/ DumpJson
             \/ OpenCsv
             \/ WriteCsv
             \/ Return0
             \/ WriteFails

SpecFiles == InitFiles /\ [][NextFiles]_vars

\* normalize_and_merge_ingredients.py is run on a graph, and on the graph reordered
InitMerge ==
    /\ memo = id_memo(canon_closure(MergeIds))
    /\ PureIdle
    /\ pc = "idle"
    /\ nodes \in lists_upto(MergeNodes, MaxMergeNodes)
    /\ edges \in seqs_upto(MergeEdges, MaxEdges)
    /\ stage = "none"
    /\ prev_nodes = <<>> /\ prev_edges = <<>>
    /\ LoopIdle
    /\ NoPages /\ NoFiles

NextMerge == MergeFirst \/ MergeReordered

SpecMerge == InitMerge /\ [][NextMerge]_vars

\* _wiki_request is called; the server answers as it likes, the call goes on
InitWiki ==
    /\ memo = <<>>
    /\ pc = "idle"
    /\ raw = <<>> /\ normalized = NoneVal /\ observations = <<>> /\ graphs = <<>>
    /\ LoopIdle /\ NoGraph
    /\ NoPages /\ NoFiles
    /\ call = WikiArgs

NextWiki == WikiGet \/ WikiSleep

SpecWiki == InitWiki /\ [][NextWiki]_vars /\ WF_vars(NextWiki)

\* a function is called on its own
InitCalls ==
    /\ memo = <<>>
    /\ pc = "idle"
    /\ raw = <<>> /\ normalized = NoneVal /\ observations = <<>> /\ graphs = <<>>
    /\ LoopIdle /\ NoGraph
    /\ NoPages /\ NoFiles
    /\ call \in ParseArgs \cup CanonArgs \cup ValidArgs

NextCalls == \/ ParsePairingLine
             \/ NormalizeToCanonical
             \/ IsValidIngredient

SpecCalls == InitCalls /\ [][NextCalls]_vars

-----------------------------------------------------------------------------
(* Properties.                                                               *)

\* the graph as the claims read it: the set of node ids, and the set of the edges as
\* (unordered pair, weight)
id_set(g) == node_ids(g.nodes)
edge_set(g) == {<<{g.edges[i].source, g.edges[i].target}, g.edges[i].weight>> :
                  i \in DOMAIN g.edges}
same_graph(g, h) == id_set(g) = id_set(h) /\ edge_set(g) = edge_set(h)

\* C6: normalize is idempotent: normalizing the result of normalize_ingredient again
\* gives that result back, for every raw string.
C6_NormalizeIdempotent == pc = "normalized twice" => normalized = raw

\* the graph a script read
prev_data == [nodes |-> prev_nodes, edges |-> prev_edges]
\* the number of edges of es at the id
degree(es, id) == Cardinality({i \in DOMAIN es : id \in {es[i].source, es[i].target}})
\* the edges of es between a and b, in either direction
between(es, a, b) == {i \in DOMAIN es : {es[i].source, es[i].target} = {a, b}}
\* no unordered pair has two edges
no_duplicate(es) ==
    \A i, j \in DOMAIN es :
        i # j => {es[i].source, es[i].target} # {es[j].source, es[j].target}
max_of(S) == CHOOSE x \in S : \A y \in S : y <= x

\* C1: after every stage (extraction, cleaning, merge, filtering), whatever the input,
\* the source and the target of every edge are ids of nodes of the stage's output.
C1_EdgesReferenceNodes ==
    stage # "none" =>
        \A i \in DOMAIN edges : {edges[i].source, edges[i].target} \subseteq node_ids(nodes)

\* a stage has read a graph with an edge to an id that is no node, and wrote edges
C1_Witness ==
    /\ stage \in {"clean", "merge", "filter"}
    /\ edges # <<>>
    /\ \E i \in DOMAIN prev_edges :
          ~({prev_edges[i].source, prev_edges[i].target} \subseteq node_ids(prev_nodes))

\* C2: after one run of the filter on any graph every node left has an edge; a node
\* whose only neighbour is not a food item is removed in the same run.
C2_NoIsolatedNode ==
    stage = "filter" => \A id \in node_ids(nodes) : degree(edges, id) >= 1

\* the filter read a food node with a single edge, to a node that is no food item,
\* removed both and kept other nodes
C2_Witness ==
    /\ stage = "filter"
    /\ nodes # <<>>
    /\ \E id, other \in node_ids(prev_nodes) :
          /\ id # other
          /\ memo.is_food_item[id] /\ ~memo.is_food_item[other]
          /\ degree(prev_edges, id) = 1
          /\ between(prev_edges, id, other) # {}
          /\ id \notin node_ids(nodes)

\* C5: the merge is idempotent: merging the graph the merge wrote gives the same node
\* ids and the same weighted edges.
C5_MergeIdempotent == stage = "merge" => same_graph(merge_main(data), data)

\* what the merge makes of the graph it read: the ids it keeps, their canonical ids,
\* the edges that map to the pair of canonical ids a and b
merge_kept == {id \in node_ids(prev_nodes) : memo.is_single_ingredient[id]}
canonical_ids(id) == Range(memo.id_to_canonicals[id])
contributing(a, b) ==
    {i \in DOMAIN prev_edges :
        /\ {prev_edges[i].source, prev_edges[i].target} \subseteq merge_kept
        /\ \/ /\ a \in canonical_ids(prev_edges[i].source)
              /\ b \in canonical_ids(prev_edges[i].target)
           \/ /\ b \in canonical_ids(prev_edges[i].source)
              /\ a \in canonical_ids(prev_edges[i].target)}

\* C9: in the merged graph each canonical id is one node, and the nodes that share a
\* canonical id leave one edge to a third node, with the greatest of their weights.
C9_MergedEdgeIsMax ==
    stage = "merge" =>
        /\ Cardinality(node_ids(nodes)) = Len(nodes)
        /\ node_ids(nodes) = UNION {canonical_ids(id) : id \in merge_kept}
        /\ \A a, b \in node_ids(nodes) :
              a # b =>
                IF contributing(a, b) = {} THEN between(edges, a, b) = {}
                ELSE /\ Cardinality(between(edges, a, b)) = 1
                     /\ \A i \in between(edges, a, b) :
                           edges[i].weight =
                               max_of({prev_edges[j].weight : j \in contributing(a, b)})

\* "apricots" and "apricots, dried", with edges to "pork" of weights 1 and 3, were
\* merged into "apricot" with one edge to "pork" of weight 3
C9_Witness ==
    /\ stage = "merge"
    /\ {<<"a","p","r","i","c","o","t","s">>, <<"a","p","r","i","c","o","t","s",","," ","d","r","i","e","d">>, <<"p","o","r","k">>} \subseteq node_ids(prev_nodes)
    /\ \E i \in between(prev_edges, <<"a","p","r","i","c","o","t","s">>, <<"p","o","r","k">>) : prev_edges[i].weight = 1
    /\ \E i \in between(prev_edges, <<"a","p","r","i","c","o","t","s",","," ","d","r","i","e","d">>, <<"p","o","r","k">>) : prev_edges[i].weight = 3
    /\ Len(edges) = 1
    /\ edge_set(data) = {<<{<<"a","p","r","i","c","o","t">>, <<"p","o","r","k">>}, 3>>}
    /\ Cardinality({i \in DOMAIN nodes : nodes[i].id = <<"a","p","r","i","c","o","t">>}) = 1

\* C10: the edge list a stage writes has one edge per unordered pair at most: the
\* extraction and the merge write no pair twice (in either direction), cleaning and
\* filtering add no duplicate to the edges they read.
C10_NoDuplicateEdge ==
    /\ stage \in {"extract", "merge"} => no_duplicate(edges)
    /\ stage \in {"clean", "filter"} /\ no_duplicate(prev_edges) => no_duplicate(edges)

\* the merge read the same pair in both directions and wrote one edge
C10_Witness ==
    /\ stage = "merge"
    /\ \E i, j \in DOMAIN prev_edges :
          /\ prev_edges[i].source = prev_edges[j].target
          /\ prev_edges[i].target = prev_edges[j].source
          /\ prev_edges[i].source # prev_edges[i].target
    /\ Len(edges) = 1

\* C3: the fold of the Graph Builder does not depend on the order: the same
\* observations (pairings of levels 1-4, affinities at level 2) folded in another
\* order give the same node ids and the same unordered edges with the same weights.
C3_FoldOrderIndependent == pc = "folded" => same_graph(graphs.first, graphs.second)

\* two observations of one pair with different levels were folded in both orders
C3_Witness ==
    /\ pc = "folded"
    /\ graphs.reordered # observations
    /\ \E i, j \in DOMAIN observations :
          /\ {observations[i].a, observations[i].b} = {observations[j].a, observations[j].b}
          /\ observations[i].level < observations[j].level
          /\ graphs.reordered[1] = observations[j] /\ observations[1] = observations[i]
    /\ graphs.first.edges # <<>>

\* the levels the line loop observed for the pair
levels_of(pair) == {o[2] : o \in {x \in observed : x[1] = pair}}

\* C4: after the extraction the weight of every edge is the greatest level observed
\* for its pair (an affinity counts as level 2), whatever the order; every observed
\* pair has its edge.
C4_WeightIsMaxLevel ==
    stage = "extract" =>
        /\ \A i \in DOMAIN edges :
              /\ levels_of({edges[i].source, edges[i].target}) # {}
              /\ edges[i].weight = max_of(levels_of({edges[i].source, edges[i].target}))
        /\ \A o \in observed : \E i \in DOMAIN edges : {edges[i].source, edges[i].target} = o[1]

\* a pair was observed at level 3 and later at level 1, and its edge has weight 3
C4_Witness ==
    /\ stage = "extract"
    /\ last.read
    /\ \E i \in DOMAIN edges :
          /\ {1, 3} \subseteq levels_of({edges[i].source, edges[i].target})
          /\ {edges[i].source, edges[i].target} \in DOMAIN last.edge_levels
          /\ last.edge_levels[{edges[i].source, edges[i].target}] = 3
          /\ <<edges[i].target, 1>> \in Range(memo.facts[last.line].parsed)
          /\ edges[i].weight = 3

\* the document "GARLIC", "onion, olive oil, *basil" and the one with "*basil, onion"
garlic_doc == <<[text |-> <<"G","A","R","L","I","C">>, bold |-> FALSE],
                [text |-> <<"o","n","i","o","n",","," ","o","l","i","v","e"," ","o","i","l",","," ","*","b","a","s","i","l">>, bold |-> FALSE]>>
garlic_doc_leading == <<[text |-> <<"G","A","R","L","I","C">>, bold |-> FALSE],
                        [text |-> <<"*","b","a","s","i","l",","," ","o","n","i","o","n">>, bold |-> FALSE]>>

\* C7 as claimed: "GARLIC" followed by "onion, olive oil, *basil" gives the nodes
\* garlic, onion, olive oil, basil and the edges (garlic, onion) and (garlic, olive
\* oil) of weight 1 and (garlic, basil) of weight 4.
C7_AsteriskSegmentLevel4 ==
    stage = "extract" /\ doc = garlic_doc =>
        /\ node_ids(nodes) = {<<"g","a","r","l","i","c">>, <<"o","n","i","o","n">>, <<"o","l","i","v","e"," ","o","i","l">>, <<"b","a","s","i","l">>}
        /\ edge_set(data) = {<<{<<"g","a","r","l","i","c">>, <<"o","n","i","o","n">>}, 1>>, <<{<<"g","a","r","l","i","c">>, <<"o","l","i","v","e"," ","o","i","l">>}, 1>>,
                              <<{<<"g","a","r","l","i","c">>, <<"b","a","s","i","l">>}, 4>>}

\* C7 amended: the level is that of the line; the asterisk of "*basil", not leading
\* the line, leaves all three edges at weight 1, and the asterisk leading "*basil,
\* onion" gives both edges of that line weight 4.
C7_LineLevel ==
    /\ stage = "extract" /\ doc = garlic_doc =>
          /\ node_ids(nodes) = {<<"g","a","r","l","i","c">>, <<"o","n","i","o","n">>, <<"o","l","i","v","e"," ","o","i","l">>, <<"b","a","s","i","l">>}
          /\ edge_set(data) = {<<{<<"g","a","r","l","i","c">>, <<"o","n","i","o","n">>}, 1>>, <<{<<"g","a","r","l","i","c">>, <<"o","l","i","v","e"," ","o","i","l">>}, 1>>,
                                <<{<<"g","a","r","l","i","c">>, <<"b","a","s","i","l">>}, 1>>}
    /\ stage = "extract" /\ doc = garlic_doc_leading =>
          /\ node_ids(nodes) = {<<"g","a","r","l","i","c">>, <<"o","n","i","o","n">>, <<"b","a","s","i","l">>}
          /\ edge_set(data) = {<<{<<"g","a","r","l","i","c">>, <<"o","n","i","o","n">>}, 4>>, <<{<<"g","a","r","l","i","c">>, <<"b","a","s","i","l">>}, 4>>}

\* the extraction of "GARLIC", "onion, olive oil, *basil" has written its graph
C7_Witness == stage = "extract" /\ doc = garlic_doc /\ Len(edges) = 3

\* the unordered pairs over the set S
clique(S) == {{a, b} : a, b \in S} \ {{a} : a \in S}

\* the line read last was read inside an affinity block, is '+'-joined, has at
\* least two distinct valid parts, and none of their pairs was observed before it
new_affinity_line ==
    /\ last.read /\ last.in_affinities
    /\ memo.facts[last.line].plus
    /\ Cardinality(Range(memo.facts[last.line].parts)) >= 2
    /\ clique(Range(memo.facts[last.line].parts)) \cap DOMAIN last.edge_levels = {}

\* the line read last has added exactly the clique over its parts, k(k-1)/2 pairs
\* for k parts, all at level 2; written, each pair is one edge of weight 2
triangle ==
    LET parts == Range(memo.facts[last.line].parts)
        k == Cardinality(parts)
    IN /\ DOMAIN edge_levels \ DOMAIN last.edge_levels = clique(parts)
       /\ 2 * Cardinality(DOMAIN edge_levels \ DOMAIN last.edge_levels) = k * (k - 1)
       /\ \A pair \in clique(parts) : edge_levels[pair] = 2
       /\ stage = "extract" =>
             \A pair \in clique(parts) :
                Cardinality({i \in DOMAIN edges :
                                /\ {edges[i].source, edges[i].target} = pair
                                /\ edges[i].weight = 2}) = 1

\* C8 as claimed: inside an affinity block every '+'-joined line with k >= 2
\* distinct valid parts whose pairs were not observed before gives exactly
\* k(k-1)/2 edges, all of level 2, a clique over the normalized parts.
C8_AffinityClique == new_affinity_line => triangle

\* C8 amended: the same, for a line that is not entirely upper-case and does not
\* contain the marker phrase of the affinity section.
C8_AffinityCliqueOfGroup ==
    new_affinity_line /\ ~memo.facts[last.line].upper /\ ~memo.facts[last.line].marker
        => triangle

\* "achiote + pork + sour orange" was read inside an affinity block and has added
\* its three pairs
C8_Witness ==
    /\ new_affinity_line
    /\ Range(memo.facts[last.line].parts) =
          {<<"a","c","h","i","o","t","e">>, <<"p","o","r","k">>,
           <<"s","o","u","r"," ","o","r","a","n","g","e">>}
    /\ Cardinality(DOMAIN edge_levels \ DOMAIN last.edge_levels) = 3
    /\ stage = "extract" /\ Len(edges) >= 3

\* no edge of es joins an id to itself
no_self_loop(es) == \A i \in DOMAIN es : es[i].source # es[i].target

\* C11: no edge has its source equal to its target: the line loop observes no pair
\* (a, a), for a part equal to the ingredient of the section or for two equal parts
\* of an affinity line; the extraction and the merge write no such edge, the merge
\* also when the two ends of an edge have the same canonical id; cleaning and
\* filtering add none.
C11_NoSelfLoop ==
    /\ \A o \in observed : Cardinality(o[1]) = 2
    /\ \A pair \in DOMAIN edge_levels : Cardinality(pair) = 2
    /\ stage \in {"extract", "merge"} => no_self_loop(edges)
    /\ stage \in {"clean", "filter"} /\ no_self_loop(prev_edges) => no_self_loop(edges)

\* under the section "garlic" a line with the part "garlic" was read, and the graph
\* written has edges
C11_Witness ==
    /\ stage = "extract"
    /\ last.read /\ ~last.in_affinities
    /\ last.current_ingredient # NoneVal
    /\ <<"g","a","r","l","i","c">> = last.current_ingredient
    /\ \E x \in Range(memo.facts[last.line].parsed) : x[1] = <<"g","a","r","l","i","c">>
    /\ edges # <<>>

\* an affinity line with two equal parts was read and added a pair
C11_EqualParts ==
    /\ last.read /\ last.in_affinities
    /\ ~memo.facts[last.line].upper /\ ~memo.facts[last.line].marker
    /\ Len(memo.facts[last.line].parts) > Cardinality(Range(memo.facts[last.line].parts))
    /\ edge_levels # last.edge_levels

\* the merge read an edge between two ids of one canonical id and wrote edges
C11_Collapsed ==
    /\ stage = "merge"
    /\ \E i \in DOMAIN prev_edges :
          /\ prev_edges[i].source # prev_edges[i].target
          /\ {prev_edges[i].source, prev_edges[i].target} \subseteq merge_kept
          /\ canonical_ids(prev_edges[i].source) = canonical_ids(prev_edges[i].target)
    /\ edges # <<>>

\* the nodes the merge read that map to the canonical id canon
originals(canon) ==
    {i \in DOMAIN prev_nodes :
        prev_nodes[i].id \in merge_kept /\ canon \in canonical_ids(prev_nodes[i].id)}

\* C17: when several nodes collapse into one canonical node, the label of the merged
\* node is the shortest of the labels of the nodes that map to its canonical id.
C17_ShortestLabel ==
    stage = "merge" =>
        \A n \in DOMAIN nodes :
            Cardinality(originals(nodes[n].id)) >= 2 =>
                \E i \in originals(nodes[n].id) :
                    /\ nodes[n].label = prev_nodes[i].label
                    /\ \A j \in originals(nodes[n].id) :
                          Len(prev_nodes[i].label) <= Len(prev_nodes[j].label)

\* the line read last is a section header: is_ingredient_header accepts it
header_read == last.read /\ memo.facts[last.line].header

\* the line read last has left the loop as a header does: no affinity block, the
\* ingredient of the section is the normalized header if it is valid, none otherwise
header_taken ==
    /\ ~in_affinities
    /\ IF memo.facts[last.line].norm_header \in memo.valid
       THEN memo.facts[last.line].norm_header = current_ingredient
       ELSE current_ingredient = NoneVal

\* the line read last has added no observation
nothing_observed ==
    /\ observed = last.observed
    /\ edge_levels = last.edge_levels
    /\ affinity_edges = last.affinity_edges

\* C18: whenever a line is a section header, whatever the state it is read in, the
\* loop leaves the affinity block, the ingredient of the section becomes the
\* normalized header if the validity filter accepts it and none otherwise, and the
\* header adds no observation.
C18_HeaderTransition == header_read => header_taken /\ nothing_observed

\* C19: a line with the marker phrase enters the affinity block; the loop stays in
\* it for every following line that is no section header, such a line without '+'
\* adds no observation, and the first section header ends the block.
C19_AffinityBlockSticky ==
    /\ last.read /\ memo.facts[last.line].marker => in_affinities
    /\ last.read /\ last.in_affinities /\ ~memo.facts[last.line].header =>
          /\ in_affinities
          /\ ~memo.facts[last.line].plus => nothing_observed
    /\ header_read /\ last.in_affinities => ~in_affinities

\* C20: a line that is a section header is never parsed as an affinity group, also
\* inside an affinity block and with a '+': it adds no affinity observation and is
\* taken as a header.
C20_HeaderNeverAffinity ==
    header_read => affinity_edges = last.affinity_edges /\ header_taken

\* C15: a page that cannot be tokenized is passed over and is not fatal: the page
\* loop of extract_from_pdf goes on to the next page with its lines, its state and
\* its results as they were.
C15_PageSkipped ==
    [][CanReadPage /\ mode = "sequential"
         /\ (pdf.pages[page_num].raises \/ pdf.pages[page_num].lines = <<>>)
       => /\ pc' = "extract"
          /\ page_num' = page_num + 1
          /\ UNCHANGED <<lines, current_ingredient, in_affinities, pairings, edge_levels,
                         affinity_edges, observed>>]_vars

-----------------------------------------------------------------------------
(* The files the scripts leave: C12, C13, C14.                               *)

\* the lines of the CSV for the edges es: the header, then source, target and weight
\* of each edge joined by commas
rows_of(es) ==
    <<csv_header>>
    \o [i \in DOMAIN es |-> join(<<es[i].source, es[i].target, str_int(es[i].weight)>>, <<",">>)]

\* C12: when a write of a script has failed, flavor_pairings.json is either the complete
\* file of before the run or the complete new file, and so is flavor_pairings.csv:
\* no file is left partially written
C12_NoPartialFile ==
    io.result = "OSError" =>
        /\ \/ fs.json = io.before.json /\ nodes = io.before.nodes /\ edges = io.before.edges
           \/ fs.json = "complete" /\ nodes = io.nodes /\ edges = io.edges
        /\ \/ fs.csv = io.before.csv /\ fs.rows = io.before.rows
           \/ fs.csv = "complete" /\ fs.rows = rows_of(io.edges)
        /\ fs.json # "partial" /\ fs.csv # "partial"

\* a write has failed after the JSON was opened: the file is cut short
C12_Truncated == io.result = "OSError" /\ fs.json = "partial" /\ io.before.json = "complete"

\* C13: when a script has written the graph and returned 0, flavor_pairings.csv is
\* complete and holds the header line source,target,weight followed by exactly one line
\* per element of the edges array of flavor_pairings.json, in its order, with the
\* source, the target and the weight of that edge
C13_CsvInSync ==
    io.result = "return 0" =>
        /\ fs.json = "complete" /\ fs.csv = "complete"
        /\ Len(fs.rows) = Len(edges) + 1
        /\ fs.rows = rows_of(edges)

\* a script has rewritten a graph with edges into a different one that has edges
C13_Witness ==
    /\ io.result = "return 0" /\ io.script \in {"clean", "merge", "filter"}
    /\ edges # <<>> /\ edges # io.before.edges
    /\ io.before.csv = "complete"

\* the extraction has written a graph with edges
C13_Extracted == io.result = "return 0" /\ io.script = "extract" /\ edges # <<>>

\* C14: when the input of a script (the PDF for the extraction, flavor_pairings.json
\* for the others) is missing, the script returns 1 at once and the two files are as
\* they were before the run
C14_MissingInput ==
    io.script # "none" /\ ~io.found =>
        /\ io.at = "returned" /\ io.result = "return 1"
        /\ files = io.before

\* the extraction has found no PDF, the graph of an earlier run is in place
C14_Witness ==
    /\ io.script = "extract" /\ ~io.found /\ io.result = "return 1"
    /\ fs.json = "complete" /\ edges # <<>> /\ fs.csv = "complete"

\* a script that rewrites the graph has found no flavor_pairings.json
C14_NoJson == io.script \in {"clean", "merge", "filter"} /\ ~io.found /\ fs.json = "missing"

-----------------------------------------------------------------------------
(* The functions called on their own: C21, C24, C25, C28.                    *)

\* C21: parse_pairing_line gives one level to the whole line, by the first cue that
\* applies: a leading asterisk gives 4; otherwise a first word in capitals of more
\* than one character gives 3; otherwise bold styling gives 2; otherwise 1; and every
\* (ingredient, level) it returns has that level.
C21_OneLevelPerLine ==
    call.fn = "parse_pairing_line" /\ call.done =>
        LET level == IF "*" \in Range(call.lead) THEN 4
                     ELSE IF Len(call.word) > 1 /\ Range(call.word) \subseteq UPPER THEN 3
                     ELSE IF call.is_bold THEN 2
                     ELSE 1
        IN \A i \in DOMAIN call.result : call.result[i][2] = level

\* a bold line with a first word in capitals has given two ingredients
C21_Witness ==
    /\ call.fn = "parse_pairing_line" /\ call.done
    /\ call.is_bold /\ call.lead = <<>> /\ call.word = <<"B","A","S","I","L">>
    /\ Len(call.result) = 2 /\ call.result[1][2] = 3

\* a bold line in capitals with a leading asterisk has given two ingredients
C21_Asterisk ==
    /\ call.fn = "parse_pairing_line" /\ call.done
    /\ call.is_bold /\ call.lead = <<"*">> /\ call.word = <<"B","A","S","I","L">>
    /\ Len(call.result) = 2 /\ call.result[2][2] = 4

-----------------------------------------------------------------------------
(* The merge on comma ids and on reordered graphs: C22, C23, C29.            *)

\* the pairs of distinct canonical ids of the ends of the edges the merge read between
\* nodes it keeps
expansion ==
    UNION {{{c, d} : c \in canonical_ids(prev_edges[i].source),
                     d \in canonical_ids(prev_edges[i].target)} \ {{c} : c \in canonical_ids(prev_edges[i].source)} :
              i \in {j \in DOMAIN prev_edges :
                        {prev_edges[j].source, prev_edges[j].target} \subseteq merge_kept}}

\* C22: the merged edges are the Cartesian expansion of the edges read: for every edge
\* (u, v) between nodes the phrase filter keeps and every canonical id c of u and d of
\* v with c # d there is an edge {c, d}, and there is no other edge.
C22_CartesianExpansion ==
    stage = "merge" =>
        {{edges[i].source, edges[i].target} : i \in DOMAIN edges} = expansion

\* the edge ("chocolate, dark, milk", "pork") has given ("dark chocolate", "pork") and
\* ("milk chocolate", "pork")
C22_Witness ==
    /\ stage = "merge"
    /\ \E i \in DOMAIN prev_edges : prev_edges[i].source = <<"c","h","o","c","o","l","a","t","e",","," ","d","a","r","k",","," ","m","i","l","k">>
    /\ {{<<"d","a","r","k"," ","c","h","o","c","o","l","a","t","e">>, <<"p","o","r","k">>}, {<<"m","i","l","k"," ","c","h","o","c","o","l","a","t","e">>, <<"p","o","r","k">>}}
          \subseteq {{edges[i].source, edges[i].target} : i \in DOMAIN edges}

\* the nodes of a graph as a set of (id, label, category), and without the category
node_set(g) == {<<g.nodes[i].id, g.nodes[i].label, get_category(g.nodes[i])>> : i \in DOMAIN g.nodes}
label_set(g) == {<<g.nodes[i].id, g.nodes[i].label>> : i \in DOMAIN g.nodes}

\* the nodes the merge read that it keeps and that give the canonical id canon
kept_for(canon) ==
    {i \in DOMAIN prev_nodes : prev_nodes[i].id \in merge_kept
                                /\ canon \in canonical_ids(prev_nodes[i].id)}

\* no two nodes the merge collapses into one differ in their category
same_categories ==
    \A n \in label_set(data) :
        Cardinality({get_category(prev_nodes[i]) : i \in kept_for(n[1])}) = 1

\* C23 as claimed: the merge of the graph with its node list and its edge list in any
\* other order has the same nodes (id, label and category) and the same weighted
\* edges.
C23_OrderIndependent ==
    pc = "reordered" =>
        /\ node_set(graphs.written) = node_set(data)
        /\ edge_set(graphs.written) = edge_set(data)

\* C23 amended: the merge of the graph in any other order has the same node ids and
\* labels and the same weighted edges, and the same categories when the nodes that
\* collapse into one node agree on their category.
C23_OrderIndependentIds ==
    pc = "reordered" =>
        /\ label_set(graphs.written) = label_set(data)
        /\ edge_set(graphs.written) = edge_set(data)
        /\ same_categories => node_set(graphs.written) = node_set(data)

\* two edges of weights 1 and 3 that collapse into one were read in both orders, and
\* so were two nodes that collapse into one
C23_Witness ==
    /\ pc = "reordered"
    /\ Len(prev_edges) = 2 /\ Len(edges) = 1 /\ edges[1].weight = 3
    /\ prev_edges[1].weight # prev_edges[2].weight
    /\ graphs.read.edges[1] = prev_edges[2]
    /\ Len(prev_nodes) = 3 /\ Len(nodes) = 2
    /\ graphs.read.nodes[1] # prev_nodes[1]

\* two nodes of different categories that collapse into one were read in both orders
C23_CategoryOfFirst ==
    /\ pc = "reordered"
    /\ ~same_categories
    /\ node_set(graphs.written) # node_set(data)

\* C29: the merge carries no provenance over: every edge it writes has the keys
\* source, target, weight and recommendation_level and no other, so none has
\* from_affinity, even when every edge it read was flagged from_affinity.
C29_NoProvenance ==
    stage = "merge" =>
        \A i \in DOMAIN edges :
            DOMAIN edges[i] = {"source", "target", "weight", "recommendation_level"}

\* the merge has read edges all flagged from_affinity and has written edges
C29_Witness ==
    /\ stage = "merge"
    /\ edges # <<>> /\ Len(edges) = Len(prev_edges)
    /\ \A j \in DOMAIN prev_edges :
          "from_affinity" \in DOMAIN prev_edges[j] /\ prev_edges[j].from_affinity

\* C24: normalize_to_canonical strips the qualifiers dried, fresh, canned, ground,
\* whole and minced: for a comma-free id X and a qualifier q, "X, q" and "q X" both
\* give what X gives.
C24_QualifierStripped ==
    call.fn = "normalize_to_canonical" /\ call.done /\ call.kind \in {"suffix", "prefix"} =>
        call.result.of_name = call.result.of_base

\* "fresh basil" is left as it is
C24_PrefixKept ==
    /\ call.fn = "normalize_to_canonical" /\ call.done
    /\ call.name = <<"f","r","e","s","h"," ","b","a","s","i","l">> /\ call.result.of_name = call.name
    /\ call.result.of_base = <<"b","a","s","i","l">>

\* C28: for a plural p of singular_map with singular s and a single-word subtype q no
\* more specific rule names, normalize_to_canonical gives "q s" for "p, q".
C28_PluralInversion ==
    call.fn = "normalize_to_canonical" /\ call.done /\ call.kind = "plural" =>
        \A p \in singular_map :
            p[1] = call.base => call.result.of_name = call.q \o <<" ">> \o p[2]

\* "cherries, sour" gives "sour cherrie"
C28_CutS ==
    /\ call.fn = "normalize_to_canonical" /\ call.done
    /\ call.name = <<"c","h","e","r","r","i","e","s",","," ","s","o","u","r">> /\ call.result.of_name = <<"s","o","u","r"," ","c","h","e","r","r","i","e">>

\* C25: is_valid_ingredient rejects every normalized string with "and", "or" or "the"
\* as a joining word between two words, so that none becomes an ingredient.
C25_JoiningWordsRejected ==
    call.fn = "is_valid_ingredient" /\ call.done
    /\ (\E w \in {<<" ","a","n","d"," ">>, <<" ","o","r"," ">>, <<" ","t","h","e"," ">>} : contains(call.name, w))
        => ~call.result

\* "salt and pepper" is a valid ingredient
C25_Accepted ==
    /\ call.fn = "is_valid_ingredient" /\ call.done
    /\ call.name = <<"s","a","l","t"," ","a","n","d"," ","p","e","p","p","e","r">> /\ call.result

-----------------------------------------------------------------------------
(* The filter run twice, and lines in capitals inside a section: C26, C27.   *)

\* C26: the graph filter_non_food_and_isolated.py writes is a fixed point: the filter
\* run on it removes no node and no edge.
C26_FilterFixedPoint ==
    stage = "filter" =>
        LET same(g) == g.nodes = nodes /\ g.edges = edges
        IN same(filter_main(data))

\* the filter has removed an edge to a non-food id and the node it left without edge,
\* and has kept an edge
C26_Witness ==
    /\ stage = "filter"
    /\ edges # <<>> /\ Len(edges) < Len(prev_edges)
    /\ \E id \in node_ids(prev_nodes) \ node_ids(nodes) :
          memo.is_food_item[id] /\ id \in connected(prev_edges)

\* at least 80% of the letters of text are in capitals
mostly_upper(text) ==
    LET share(letters, uppers) == letters # {} /\ 5 * Cardinality(uppers) >= 4 * Cardinality(letters)
    IN share({i \in DOMAIN text : text[i] \in ALPHA}, {i \in DOMAIN text : text[i] \in UPPER})

\* C27: a line with at least 80% of its letters in capitals gives no pairing
\* observation: what the loop records at such a line, it records for an affinity line;
\* inside a section the line records nothing and is taken as a header (the ingredient
\* of the section becomes the header), as metadata or as the affinity marker.
C27_NoPairingFromCapitals ==
    last.read /\ mostly_upper(last.line.text) =>
        /\ affinity_edges = last.affinity_edges =>
              observed = last.observed /\ edge_levels = last.edge_levels
        /\ last.current_ingredient # NoneVal /\ ~last.in_affinities =>
              /\ nothing_observed
              /\ \/ header_taken
                 \/ /\ memo.facts[last.line].metadata
                    /\ current_ingredient = last.current_ingredient /\ ~in_affinities
                 \/ /\ memo.facts[last.line].marker
                    /\ current_ingredient = last.current_ingredient /\ in_affinities

\* "*BASIL" was read in the section of garlic, after a pairing line: the section is now
\* the one of basil and no pair of garlic and basil was recorded
C27_Witness ==
    /\ last.read /\ last.line.text = <<"*","B","A","S","I","L">>
    /\ last.current_ingredient # NoneVal /\ <<"g","a","r","l","i","c">> = last.current_ingredient
    /\ ~last.in_affinities
    /\ last.observed # {}
    /\ current_ingredient # NoneVal /\ <<"b","a","s","i","l">> = current_ingredient
    /\ observed = last.observed

\* a metadata line in capitals was read in a section
C27_Metadata ==
    /\ last.read /\ last.line.text = <<"S","E","A","S","O","N",":"," ","F","A","L","L">>
    /\ last.current_ingredient # NoneVal /\ ~last.in_affinities
    /\ current_ingredient = last.current_ingredient

-----------------------------------------------------------------------------
(* The request with retries: C30.                                            *)

\* every response so far but the last was a 429 or an exception
failed_before_last ==
    \A i \in 1..(Len(call.responses) - 1) : call.responses[i] # "200"

\* C30: a call of _wiki_request makes at most MAX_RETRIES requests and returns: the
\* decoded response at the first attempt that succeeds, None once MAX_RETRIES
\* attempts have ended in a 429 or an exception, whatever the server answers.
C30_BoundedRetries ==
    /\ [](/\ Len(call.responses) <= MAX_RETRIES
          /\ failed_before_last
          /\ call.done =>
                IF call.responses[Len(call.responses)] = "200"
                THEN call.result = "r.json()"
                ELSE call.result = NoneVal /\ Len(call.responses) = MAX_RETRIES)
    /\ <>call.done

\* a 429, an exception and a 429 again: None after three requests
C30_Witness ==
    /\ call.done /\ call.result = NoneVal
    /\ call.responses = <<"429", "timeout", "429">>

\* the third request has succeeded
C30_ThirdTime ==
    /\ call.done /\ call.result = "r.json()"
    /\ call.responses = <<"500", "429", "200">>

====
